---- MODULE Spec2Model ----
(***************************************************************************)
(* A model of the Instagram web client of docs/referencia: the Transport   *)
(* Layer (_api_get, _api_post, _web_post and the read/write calls built on *)
(* them), the authentication state machine with the session snapshot, the  *)
(* rate-governed write operations and the upload pipeline.                 *)
(*                                                                         *)
(* Every handler is one action.  What the platform answers, what the       *)
(* external tools do and what the operator types are inputs of the action, *)
(* drawn from small sets.  The order of the steps inside one handler is    *)
(* kept in the log of the operation, a sequence of events.                 *)
(***************************************************************************)
EXTENDS Integers, Sequences, FiniteSets, TLC

VARIABLES
    tx,       \* the transport call in progress or just finished
    cl,       \* the InstagramWebAPI client: flags, identity, CSRF token, cookie jar
    bot,      \* the InstagramBot: is_logged_in
    sfile,    \* the session snapshot file on disk
    authOp,   \* the last authentication operation: name, result, log
    rl,       \* the RateLimiter: actions recorded per kind in the current hour
    fm,       \* the FollowersManager: followed_users, whitelist, daily_stats
    rateOp,   \* the last rate-governed operation: name, result, log
    clock,    \* the system clock, in milliseconds
    pub,      \* per thread, the publish call it is in
    sched     \* the ContentScheduler: posts_queue, and each thread's check_and_post

vars == <<tx, cl, bot, sfile, authOp, rl, fm, rateOp, clock, pub, sched>>

uploadVars == <<clock, pub, sched>>

authVars == <<cl, bot, sfile, authOp>>

rateVars == <<rl, fm, rateOp>>

\* One event of an operation's log: what happened, to what, with which number.
Ev(e, a, n) == [ev |-> e, arg |-> a, n |-> n]

\* The events of a log that are of a given kind, in order.
EventsOf(log, e) == SelectSeq(log, LAMBDA x : x.ev = e)

\* The number of network requests in a log.
Sent(log) == Len(EventsOf(log, "send"))

(***************************************************************************)
(* TRANSPORT LAYER                                                         *)
(***************************************************************************)

\* Default of the retries parameter of _api_get and _api_post.
RETRIES == 2

\* Backoff base: wait = 30 * (attempt + 1).
BASE_WAIT == 30

\* Length of the platform's script of answers; at least RETRIES + 2, so that
\* a request beyond the retry bound would have an answer to consume.
ScriptLen == 4

\* What the platform answers to one request:
\*   "ok"   HTTP 200, JSON body carrying the success token
\*   "nok"  HTTP 200, JSON body of any other shape
\*   "r429" HTTP 429
\*   "r500" any other HTTP error status
\*   "exc"  no response (connection error, timeout)
Resp == {"ok", "nok", "r429", "r500", "exc"}

Http200 == {"ok", "nok"}

HttpError == {"r429", "r500"}

\* The platform's answers to the successive requests of one call.
Scripts == [1..ScriptLen -> Resp]

\* The result of a transport call.
Returned(script, i, log) ==
    [outcome |-> "returned", value |-> i, body |-> script[i], log |-> log]

Raised(script, i, log) ==
    [outcome |-> "raised", value |-> 0, body |-> script[i], log |-> log]

\* The retry loop of _api_get / _api_post with the retry on 429 removed.
api_loop_noretry(url, script, retries, attempt, log) ==
    LET r    == script[attempt + 1]
        log1 == log \o <<Ev("delay", url, attempt + 1), Ev("send", url, attempt + 1)>>
    IN  IF r \in Http200 THEN Returned(script, attempt + 1, log1)
        ELSE Raised(script, attempt + 1, log1)

\* The retry loop of _api_get / _api_post retrying once too often.
RECURSIVE api_loop_extra(_, _, _, _, _)
api_loop_extra(url, script, retries, attempt, log) ==
    LET r    == script[attempt + 1]
        log1 == log \o <<Ev("delay", url, attempt + 1), Ev("send", url, attempt + 1)>>
    IN  IF r \in Http200 THEN Returned(script, attempt + 1, log1)
        ELSE IF r = "r429" /\ attempt <= retries
             THEN api_loop_extra(url, script, retries, attempt + 1,
                      log1 \o <<Ev("sleep", url, BASE_WAIT * (attempt + 1))>>)
             ELSE Raised(script, attempt + 1, log1)

\* The retry loop of _api_get / _api_post retrying on every HTTP error
\* status.
RECURSIVE api_loop_retry_any(_, _, _, _, _)
api_loop_retry_any(url, script, retries, attempt, log) ==
    LET r    == script[attempt + 1]
        log1 == log \o <<Ev("delay", url, attempt + 1), Ev("send", url, attempt + 1)>>
    IN  IF r \in Http200 THEN Returned(script, attempt + 1, log1)
        ELSE IF r \in HttpError /\ attempt < retries
             THEN api_loop_retry_any(url, script, retries, attempt + 1,
                      log1 \o <<Ev("sleep", url, BASE_WAIT * (attempt + 1))>>)
             ELSE Raised(script, attempt + 1, log1)

\* for attempt in range(retries + 1): delay, request, raise_for_status;
\* on HTTPError with status 429 and attempt < retries sleep and continue,
\* otherwise raise; any other exception is raised at once.
RECURSIVE api_loop(_, _, _, _, _)
api_loop(url, script, retries, attempt, log) ==
    LET r    == script[attempt + 1]
        log1 == log \o <<Ev("delay", url, attempt + 1), Ev("send", url, attempt + 1)>>
    IN  IF r \in Http200 THEN Returned(script, attempt + 1, log1)
        ELSE IF r = "r429" /\ attempt < retries
             THEN api_loop(url, script, retries, attempt + 1,
                      log1 \o <<Ev("sleep", url, BASE_WAIT * (attempt + 1))>>)
             ELSE Raised(script, attempt + 1, log1)

\* _api_get: refresh the CSRF token once, then the retry loop.
api_get(script, retries) ==
    api_loop("api_get", script, retries, 0, <<Ev("refresh_csrf", "api_get", 0)>>)

\* _api_post: the same loop around session.post.
api_post(script, retries) ==
    api_loop("api_post", script, retries, 0, <<Ev("refresh_csrf", "api_post", 0)>>)

\* _web_post: refresh the CSRF token, one request, no delay and no retry.
web_post(script) ==
    LET log1 == <<Ev("refresh_csrf", "web_post", 0), Ev("send", "web_post", 1)>>
    IN  IF script[1] \in Http200 THEN Returned(script, 1, log1)
        ELSE Raised(script, 1, log1)

\* The read and write calls of the client built on the three conventions.
ReadFns == {"get_user_info", "user_stories"}

WebWriteFns == {"user_follow", "user_unfollow", "media_like", "media_unlike",
                "media_comment"}

ApiWriteFns == {"story_seen"}

TransportFns == {"api_get", "api_post", "web_post"}

Fns == TransportFns \cup ReadFns \cup WebWriteFns \cup ApiWriteFns

\* The transport convention a call goes through.
ConvOf(fn) ==
    IF fn \in ReadFns \cup {"api_get"} THEN "api_get"
    ELSE IF fn \in ApiWriteFns \cup {"api_post"} THEN "api_post"
    ELSE "web_post"

transport(fn, script) ==
    CASE ConvOf(fn) = "api_get"  -> api_get(script, RETRIES)
      [] ConvOf(fn) = "api_post" -> api_post(script, RETRIES)
      [] OTHER                   -> web_post(script)

\* What the caller gets.  The write calls and the reads catch every
\* exception: a write returns True only for the success token and False for
\* any other body or a raised error; get_user_info returns None for an empty
\* user and on error; user_stories returns the items or the empty list.
client_call(fn, script) ==
    LET t == transport(fn, script)
        ret == IF fn \in TransportFns
               THEN (IF t.outcome = "returned" THEN "json" ELSE "raise")
               ELSE IF fn \in WebWriteFns \cup ApiWriteFns
               THEN (IF t.outcome = "returned" /\ t.body = "ok" THEN "True" ELSE "False")
               ELSE IF fn = "get_user_info"
               THEN (IF t.outcome = "returned" /\ t.body = "ok" THEN "WebUser" ELSE "None")
               ELSE (IF t.outcome = "returned" /\ t.body = "ok" THEN "items" ELSE "empty")
    IN  [fn |-> fn, script |-> script, outcome |-> t.outcome, value |-> t.value,
         body |-> t.body, log |-> t.log, ret |-> ret]

NoCall ==
    [fn |-> "none", script |-> [i \in 1..ScriptLen |-> "exc"], outcome |-> "none",
     value |-> 0, body |-> "exc", log |-> <<>>, ret |-> "none"]

\* One call through the transport layer, the platform answering by script.
\* The session is used by one call at a time here; tx keeps the finished
\* call until its caller has taken the result.
TransportCall ==
    /\ tx = NoCall
    /\ \E fn \in Fns, script \in Scripts :
           tx' = client_call(fn, script)
    /\ UNCHANGED <<authVars, rateVars, uploadVars>>

\* The caller takes the result of the finished call.
TransportReturn ==
    /\ tx # NoCall
    /\ tx' = NoCall
    /\ UNCHANGED <<authVars, rateVars, uploadVars>>

(***************************************************************************)
(* PAGINATED LISTS                                                         *)
(***************************************************************************)

\* The largest amount asked of user_followers / user_following.
MaxAmount == 3

\* The number of pages the platform's list has at most.
MaxPages == 3

\* The largest number of users on one page.
MaxPageUsers == 2

\* The continuation cursors the platform hands out; "" is a page without
\* next_max_id.
Cursors == {"a", "b"}

\* What one page request through _api_get yields: a page of users with or
\* without a cursor, or an exception ("raise").
PageResps == [users : 0..MaxPageUsers, cursor : Cursors \cup {"", "raise"}]

\* The platform's answers to the successive page requests; its last page
\* has no cursor.
PageScripts ==
    {s \in [1..MaxPages -> PageResps] :
        /\ s[MaxPages].cursor \in {"", "raise"}
        /\ \A i \in 1..MaxPages : s[i].cursor = "raise" => s[i].users = 0}

ListFns == {"user_followers", "user_following"}

\* The loop of user_followers / user_following going on while the platform
\* hands out a cursor, whatever the amount.
RECURSIVE list_loop_no_target(_, _, _, _, _, _)
list_loop_no_target(amount, pages, i, acc, end_cursor, log) ==
    LET p    == pages[i]
        log1 == log \o <<Ev("page", end_cursor, acc)>>
        log2 == log1 \o <<Ev("answer", p.cursor, p.users)>>
    IN  IF p.cursor = "raise" THEN [acc |-> acc, log |-> log2]
        ELSE IF p.cursor = "" THEN [acc |-> acc + p.users, log |-> log2]
        ELSE list_loop_no_target(amount, pages, i + 1, acc + p.users, p.cursor,
                                 log2 \o <<Ev("delay", "page", i)>>)

\* The loop of user_followers / user_following never replacing the first
\* cursor it obtained.
RECURSIVE list_loop_first_cursor(_, _, _, _, _, _)
list_loop_first_cursor(amount, pages, i, acc, end_cursor, log) ==
    LET p    == pages[i]
        log1 == log \o <<Ev("page", end_cursor, acc)>>
        log2 == log1 \o <<Ev("answer", p.cursor, p.users)>>
    IN  IF ~(acc < amount) THEN [acc |-> acc, log |-> log]
        ELSE IF p.cursor = "raise" THEN [acc |-> acc, log |-> log2]
        ELSE IF p.cursor = "" THEN [acc |-> acc + p.users, log |-> log2]
        ELSE list_loop_first_cursor(amount, pages, i + 1, acc + p.users,
                                    IF end_cursor = "" THEN p.cursor ELSE end_cursor,
                                    log2 \o <<Ev("delay", "page", i)>>)

\* while len(followers) < amount: request a page with max_id set to the
\* cursor held, if any; append its users; break when the answer has no
\* next_max_id, otherwise keep it as the cursor and delay.  An exception
\* ends the loop.
RECURSIVE list_loop(_, _, _, _, _, _)
list_loop(amount, pages, i, acc, end_cursor, log) ==
    LET p    == pages[i]
        log1 == log \o <<Ev("page", end_cursor, acc)>>
        log2 == log1 \o <<Ev("answer", p.cursor, p.users)>>
    IN  IF ~(acc < amount) THEN [acc |-> acc, log |-> log]
        ELSE IF p.cursor = "raise" THEN [acc |-> acc, log |-> log2]
        ELSE IF p.cursor = "" THEN [acc |-> acc + p.users, log |-> log2]
        ELSE list_loop(amount, pages, i + 1, acc + p.users, p.cursor,
                       log2 \o <<Ev("delay", "page", i)>>)

\* The users of page i of the platform's list, n of them, in the order of
\* the page.
PageItems(i, n) == [k \in 1..n |-> 10 * i + k]

\* The list after the answers to the first j page requests: the users of
\* each answer appended in turn; an exception appends nothing.
RECURSIVE followers_after(_, _)
followers_after(answers, j) ==
    IF j = 0 THEN <<>>
    ELSE followers_after(answers, j - 1) \o PageItems(j, answers[j].n)

\* user_followers / user_following giving up the users gathered when a page
\* request raised.
user_followers_nothing_on_error(fn, amount, pages) ==
    LET l == list_loop(amount, pages, 1, 0, "", <<>>)
        answers == EventsOf(l.log, "answer")
        followers == followers_after(answers, Len(answers))
        failed == answers # <<>> /\ answers[Len(answers)].arg = "raise"
    IN  [fn |-> fn, amount |-> amount, script |-> pages, outcome |-> "returned",
         value |-> IF failed THEN 0 ELSE IF l.acc < amount THEN l.acc ELSE amount,
         items |-> IF failed THEN <<>>
                   ELSE SubSeq(followers, 1,
                               IF l.acc < amount THEN l.acc ELSE amount),
         body |-> "ok", log |-> l.log, ret |-> "list"]

\* user_followers / user_following: the loop from an empty list and no
\* cursor; an exception is logged, and followers[:amount], the first amount
\* users of what was gathered, is returned.
user_followers(fn, amount, pages) ==
    LET l == list_loop(amount, pages, 1, 0, "", <<>>)
        answers == EventsOf(l.log, "answer")
        followers == followers_after(answers, Len(answers))
    IN  [fn |-> fn, amount |-> amount, script |-> pages, outcome |-> "returned",
         value |-> IF l.acc < amount THEN l.acc ELSE amount,
         items |-> SubSeq(followers, 1, IF l.acc < amount THEN l.acc ELSE amount),
         body |-> "ok", log |-> l.log, ret |-> "list"]

\* cl.user_followers(user_id, amount) or cl.user_following(user_id, amount).
ListCall ==
    /\ tx = NoCall
    /\ \E fn \in ListFns, amount \in 0..MaxAmount, pages \in PageScripts :
           tx' = user_followers(fn, amount, pages)
    /\ UNCHANGED <<authVars, rateVars, uploadVars>>

NextPaging == ListCall \/ TransportReturn

\* The same loop, one pass at a time, for a platform that may go on
\* answering for ever.  user_followers / user_following is entered with an
\* empty list and no cursor.
FetchStart ==
    /\ tx = NoCall
    /\ \E fn \in ListFns, amount \in 0..MaxAmount :
           tx' = [fn |-> fn, amount |-> amount, acc |-> 0, end_cursor |-> "",
                  last |-> 0, pc |-> "loop"]
    /\ UNCHANGED <<authVars, rateVars, uploadVars>>

\* One pass of the loop: the test len(followers) < amount, and when it
\* holds one page request, the users of the answer appended, then break
\* (no next_max_id, or an exception) or the cursor kept for the next pass.
FetchPass ==
    /\ tx # NoCall
    /\ tx.pc = "loop"
    /\ \/ /\ ~(tx.acc < tx.amount)
          /\ tx' = [tx EXCEPT !.pc = "done"]
       \/ /\ tx.acc < tx.amount
          /\ \E p \in PageResps :
                /\ p.cursor = "raise" => p.users = 0
                /\ tx' = [tx EXCEPT !.acc = @ + p.users,
                                    !.last = p.users,
                                    !.end_cursor = IF p.cursor \in Cursors
                                                   THEN p.cursor ELSE @,
                                    !.pc = IF p.cursor \in Cursors
                                           THEN "loop" ELSE "done"]
    /\ UNCHANGED <<authVars, rateVars, uploadVars>>

\* return followers[:amount].
FetchReturn ==
    /\ tx # NoCall
    /\ tx.pc = "done"
    /\ tx' = NoCall
    /\ UNCHANGED <<authVars, rateVars, uploadVars>>

NextFetch == FetchStart \/ FetchPass \/ FetchReturn

(***************************************************************************)
(* SESSION AND AUTHENTICATION                                              *)
(***************************************************************************)

\* CSRF token values the platform hands out.
Tokens == {"c1", "c2"}

\* The account configured in IG_USERNAME.
USER == "alice"

\* Cookie domains: "" is the domain of a cookie restored from the snapshot
\* by cookies.set(name, value), "ig" the platform's own and "www" that of a
\* host-only cookie of the platform.  The jar lists the csrftoken cookies
\* in the order the jar iterates over them, which is the order in which
\* their domains first entered the jar; doms is that order, which a
\* removed cookie keeps its place in; recent is the domain of the csrftoken
\* cookie that was set last ("none" in an empty jar).
NoJar == [csrf |-> <<>>, doms |-> <<>>, recent |-> "none",
          sessionid |-> "", ds_user_id |-> ""]

\* The client after __init__.
NewClient ==
    [is_authenticated |-> FALSE, user_id |-> "None", username |-> "None",
     csrf_token |-> "", xcsrf |-> "", jar |-> NoJar]

NewBot == [is_logged_in |-> FALSE]

NoFile == [exists |-> FALSE, cookies |-> NoJar, user_id |-> "None",
           username |-> "None", csrf_token |-> ""]

\* A Set-Cookie of csrftoken: the cookie takes the place of its domain in
\* the jar, a domain new to the jar coming last.
set_csrf_cookie(jar, dom, val) ==
    LET doms     == IF \E i \in 1..Len(jar.doms) : jar.doms[i] = dom
                    THEN jar.doms ELSE Append(jar.doms, dom)
        held(d)  == d = dom \/ \E i \in 1..Len(jar.csrf) : jar.csrf[i].dom = d
        valof(d) == IF d = dom THEN val
                    ELSE (CHOOSE x \in {jar.csrf[i] : i \in 1..Len(jar.csrf)} :
                              x.dom = d).val
        ds       == SelectSeq(doms, held)
    IN  [jar EXCEPT !.csrf = [i \in 1..Len(ds) |-> [dom |-> ds[i], val |-> valof(ds[i])]],
                    !.doms = doms,
                    !.recent = dom]

\* _refresh_csrf: of several csrftoken cookies keep the last of the jar;
\* a non-empty cookie value becomes csrf_token and the X-CSRFToken header.
refresh_csrf(c) ==
    LET n    == Len(c.jar.csrf)
        kept == IF n > 1 THEN <<c.jar.csrf[n]>> ELSE c.jar.csrf
        csrf == IF kept = <<>> THEN "" ELSE kept[1].val
        c1   == [c EXCEPT !.jar.csrf = kept]
    IN  IF csrf # "" THEN [c1 EXCEPT !.csrf_token = csrf, !.xcsrf = csrf] ELSE c1

\* _set_ajax_headers: refresh the CSRF token, then the fixed AJAX headers.
set_ajax_headers(c) == refresh_csrf(c)

\* The outcome of one client operation: the client after it, what it
\* returned and the events it went through.
Out(c, ret, log) == [c |-> c, ret |-> ret, log |-> log]

\* What the platform and the operator do during one login:
\*   root  the GET of the main page: "exc", "nocookie", or the token set
\*   resp  the answer to the credential submission
\*   sub   the course of the checkpoint or two-factor sub-flow
RootResps == {"exc", "nocookie"} \cup Tokens

LoginResps == {"authenticated", "authenticated_noid", "checkpoint",
               "two_factor", "rejected", "exc"}

CheckpointSubs == {"get_exc", "choice_rejected", "code_exc", "code_rejected",
                   "code_ok", "code_ok_session"}

TwoFactorSubs == {"exc", "rejected", "authenticated"}

LoginEnvs ==
    {e \in [root : RootResps, resp : LoginResps,
            sub : CheckpointSubs \cup TwoFactorSubs \cup {"none"}] :
        \/ e.resp = "checkpoint" /\ e.sub \in CheckpointSubs
        \/ e.resp = "two_factor" /\ e.sub \in TwoFactorSubs
        \/ e.resp \notin {"checkpoint", "two_factor"} /\ e.sub = "none"}

\* _handle_checkpoint taking the accepted code for a session, without
\* looking for the sessionid cookie.
handle_checkpoint_no_cookie_test(c, sub) ==
    LET get == <<Ev("send", "checkpoint_get", 0)>>
        c1  == refresh_csrf(c)
        sel == get \o <<Ev("refresh_csrf", "checkpoint", 0),
                        Ev("send", "checkpoint_choice", 0)>>
        cod == sel \o <<Ev("input", "code", 0), Ev("send", "checkpoint_code", 0)>>
        c2  == IF sub = "code_ok_session"
               THEN [c1 EXCEPT !.jar.sessionid = "s1", !.jar.ds_user_id = "u1"]
               ELSE c1
    IN  CASE sub = "get_exc"         -> Out(c, FALSE, get)
          [] sub = "choice_rejected" -> Out(c1, FALSE, sel)
          [] sub = "code_exc"        -> Out(c1, FALSE, cod)
          [] sub = "code_rejected"   -> Out(c1, FALSE, cod)
          [] OTHER ->
               Out(refresh_csrf([c2 EXCEPT !.user_id = c2.jar.ds_user_id,
                                           !.is_authenticated = TRUE]),
                   TRUE,
                   cod \o <<Ev("authenticated", "checkpoint", 0),
                            Ev("refresh_csrf", "checkpoint", 0)>>)

\* _handle_checkpoint: GET the checkpoint page, refresh, POST choice=1; on
\* 200 ask the operator for the code and POST it; Authenticated when that
\* answer is 200 and the jar holds a sessionid cookie.
handle_checkpoint(c, sub) ==
    LET get == <<Ev("send", "checkpoint_get", 0)>>
        c1  == refresh_csrf(c)
        sel == get \o <<Ev("refresh_csrf", "checkpoint", 0),
                        Ev("send", "checkpoint_choice", 0)>>
        cod == sel \o <<Ev("input", "code", 0), Ev("send", "checkpoint_code", 0)>>
        c2  == IF sub = "code_ok_session"
               THEN [c1 EXCEPT !.jar.sessionid = "s1", !.jar.ds_user_id = "u1"]
               ELSE c1
    IN  CASE sub = "get_exc"         -> Out(c, FALSE, get)
          [] sub = "choice_rejected" -> Out(c1, FALSE, sel)
          [] sub = "code_exc"        -> Out(c1, FALSE, cod)
          [] sub = "code_rejected"   -> Out(c1, FALSE, cod)
          [] OTHER ->
               IF c2.jar.sessionid # ""
               THEN Out(refresh_csrf([c2 EXCEPT !.user_id = c2.jar.ds_user_id,
                                                !.is_authenticated = TRUE]),
                        TRUE,
                        cod \o <<Ev("authenticated", "checkpoint", 0),
                                 Ev("refresh_csrf", "checkpoint", 0)>>)
               ELSE Out(c2, FALSE, cod)

\* _handle_2fa: ask the operator for the code, POST it to the two-factor
\* endpoint; Authenticated when the answer carries authenticated.
handle_2fa(c, username, sub) ==
    LET log == <<Ev("input", "code", 0), Ev("send", "two_factor", 0)>>
    IN  IF sub = "authenticated"
        THEN Out(refresh_csrf([c EXCEPT !.user_id = "u1", !.username = username,
                                        !.is_authenticated = TRUE,
                                        !.jar.sessionid = "s1",
                                        !.jar.ds_user_id = "u1"]),
                 TRUE,
                 log \o <<Ev("authenticated", "two_factor", 0),
                          Ev("refresh_csrf", "two_factor", 0)>>)
        ELSE Out(c, FALSE, log)

\* InstagramWebAPI.login.
login(c, username, env) ==
    LET get == <<Ev("send", "root_get", 0)>>
        c1  == refresh_csrf(
                   IF env.root \in Tokens
                   THEN [c EXCEPT !.jar = set_csrf_cookie(@, "ig", env.root)]
                   ELSE c)
        c2  == set_ajax_headers(c1)
        sub == get \o <<Ev("refresh_csrf", "login", 0), Ev("refresh_csrf", "ajax", 0),
                        Ev("delay", "login", 0), Ev("send", "login_ajax", 0)>>
        chk == handle_checkpoint(c2, env.sub)
        tfa == handle_2fa(c2, username, env.sub)
    IN  IF env.root = "exc" THEN Out(c, FALSE, get)
        ELSE IF c1.csrf_token = ""
        THEN Out(c1, FALSE, get \o <<Ev("refresh_csrf", "login", 0)>>)
        ELSE CASE env.resp \in {"authenticated", "authenticated_noid"} ->
                    Out(refresh_csrf(
                            [c2 EXCEPT !.user_id = IF env.resp = "authenticated"
                                                   THEN "u1" ELSE "",
                                       !.username = username,
                                       !.is_authenticated = TRUE,
                                       !.jar.sessionid = "s1",
                                       !.jar.ds_user_id = "u1"]),
                        TRUE,
                        sub \o <<Ev("authenticated", "login", 0),
                                 Ev("refresh_csrf", "login", 0)>>)
               [] env.resp = "checkpoint" -> Out(chk.c, chk.ret, sub \o chk.log)
               [] env.resp = "two_factor" -> Out(tfa.c, tfa.ret, sub \o tfa.log)
               [] OTHER -> Out(c2, FALSE, sub)

\* dict(self.session.cookies): one value per cookie name.
cookie_dict(jar) ==
    [csrf |-> IF jar.csrf = <<>> THEN <<>>
              ELSE <<[dom |-> "", val |-> jar.csrf[Len(jar.csrf)].val]>>,
     doms |-> IF jar.csrf = <<>> THEN <<>> ELSE <<"">>,
     recent |-> IF jar.csrf = <<>> THEN "none" ELSE "",
     sessionid |-> jar.sessionid, ds_user_id |-> jar.ds_user_id]

\* save_session: write cookies, identity and CSRF token to the file.
save_session(c) ==
    [exists |-> TRUE, cookies |-> cookie_dict(c.jar), user_id |-> c.user_id,
     username |-> c.username, csrf_token |-> c.csrf_token]

\* What the verification probe GET /accounts/edit/web_form_data/ yields.
ProbeResps == {"status_ok", "form_data", "other_200", "http_error", "exc"}

\* _verify_session: True for a 200 whose body has status ok or form_data.
verify_session(probe) == probe \in {"status_ok", "form_data"}

\* load_session: no file, False; otherwise clear the jar, restore cookies,
\* identity and CSRF token, set the AJAX headers and probe; is_authenticated
\* is set to True when the probe succeeds and is not touched otherwise.
load_session(c, file, probe) ==
    LET c1 == set_ajax_headers(
                  [c EXCEPT !.jar = file.cookies, !.user_id = file.user_id,
                            !.username = file.username,
                            !.csrf_token = file.csrf_token])
        log == <<Ev("read_file", "session", 0), Ev("refresh_csrf", "ajax", 0),
                 Ev("send", "probe", 0)>>
    IN  IF ~file.exists THEN Out(c, FALSE, <<>>)
        ELSE IF verify_session(probe)
        THEN Out([c1 EXCEPT !.is_authenticated = TRUE], TRUE,
                 log \o <<Ev("authenticated", "restore", 0)>>)
        ELSE Out(c1, FALSE, log)

\* InstagramBot.login submitting the credentials before trying the snapshot.
bot_login_always_submit(c, file, force_new, probe, env) ==
    LET l == login(c, USER, env)
    IN  IF l.ret
        THEN [c |-> l.c, ret |-> TRUE, file |-> save_session(l.c), logged |-> TRUE,
              log |-> l.log \o <<Ev("save_session", "session", 0)>>]
        ELSE [c |-> l.c, ret |-> FALSE, file |-> file, logged |-> FALSE,
              log |-> l.log]

\* InstagramBot.login forgetting to save after a fresh login.
bot_login_nosave(c, file, force_new, probe, env) ==
    LET r == IF ~force_new /\ file.exists
             THEN load_session(c, file, probe)
             ELSE Out(c, FALSE, <<>>)
        l == login(r.c, USER, env)
    IN  IF r.ret
        THEN [c |-> r.c, ret |-> TRUE, file |-> file, logged |-> TRUE, log |-> r.log]
        ELSE [c |-> l.c, ret |-> l.ret, file |-> file, logged |-> l.ret,
              log |-> r.log \o l.log]

\* InstagramBot.login: unless force_new, try the snapshot when the file
\* exists; restored, done.  Otherwise a fresh login, and on success the
\* snapshot is saved at once.  logged tells whether is_logged_in is set.
bot_login(c, file, force_new, probe, env) ==
    LET r == IF ~force_new /\ file.exists
             THEN load_session(c, file, probe)
             ELSE Out(c, FALSE, <<>>)
        l == login(r.c, USER, env)
    IN  IF r.ret
        THEN [c |-> r.c, ret |-> TRUE, file |-> file, logged |-> TRUE, log |-> r.log]
        ELSE IF l.ret
        THEN [c |-> l.c, ret |-> TRUE, file |-> save_session(l.c), logged |-> TRUE,
              log |-> r.log \o l.log \o <<Ev("save_session", "session", 0)>>]
        ELSE [c |-> l.c, ret |-> FALSE, file |-> file, logged |-> FALSE,
              log |-> r.log \o l.log]

\* No login took place in the operation.
NoEnv == [root |-> "exc", resp |-> "exc", sub |-> "none"]

\* The record of the last authentication operation: the client and the
\* file as the operation found them, its force_new argument, the answer of
\* the platform to the probe and its behaviour during the login, what the
\* operation returned and its log.
AuthRec(op, before, file, force_new, probe, env, ret, log) ==
    [op |-> op, before |-> before, file |-> file, force_new |-> force_new,
     probe |-> probe, env |-> env, ret |-> ret, log |-> log]

NoAuthOp == AuthRec("none", NewClient, NoFile, FALSE, "exc", NoEnv, FALSE, <<>>)

\* cl.login(username, password) called on the client.
ClLogin ==
    \E env \in LoginEnvs :
        LET o == login(cl, USER, env)
        IN  /\ authOp = NoAuthOp
            /\ cl' = o.c
            /\ authOp' = AuthRec("login", cl, sfile, FALSE, "exc", env, o.ret, o.log)
            /\ UNCHANGED <<tx, bot, sfile, rateVars, uploadVars>>

\* cl.load_session(SESSION_FILE) called on the client.
ClLoadSession ==
    \E probe \in ProbeResps :
        LET o == load_session(cl, sfile, probe)
        IN  /\ authOp = NoAuthOp
            /\ cl' = o.c
            /\ authOp' = AuthRec("load_session", cl, sfile, FALSE, probe, NoEnv, o.ret, o.log)
            /\ UNCHANGED <<tx, bot, sfile, rateVars, uploadVars>>

\* bot.login(force_new).
BotLogin ==
    \E force_new \in BOOLEAN, probe \in ProbeResps, env \in LoginEnvs :
        LET o == bot_login(cl, sfile, force_new, probe, env)
        IN  /\ authOp = NoAuthOp
            /\ cl' = o.c
            /\ sfile' = o.file
            /\ bot' = IF o.logged THEN [bot EXCEPT !.is_logged_in = TRUE] ELSE bot
            /\ authOp' = AuthRec("bot_login", cl, sfile, force_new, probe, env, o.ret, o.log)
            /\ UNCHANGED <<tx, rateVars, uploadVars>>

\* 1 when the client is Authenticated, 0 otherwise.
Auth01(c) == IF c.is_authenticated THEN 1 ELSE 0

\* The publish call of the client after the login l of the bot: nothing
\* when the login failed, otherwise its requests go out on the client as
\* the login left it.
publish_after(l) ==
    IF l.ret
    THEN [l EXCEPT !.log = @ \o <<Ev("request", "publish", Auth01(l.c))>>]
    ELSE l

\* InstagramBot.upload_photo, upload_video, upload_story_photo,
\* upload_story_video and upload_reel: when is_logged_in is not set, login
\* and return False if it fails; then the publish call of the client, whose
\* requests go out on the client as it is.
bot_upload(c, logged_in, file, probe, env) ==
    IF logged_in
    THEN [c |-> c, ret |-> TRUE, file |-> file, logged |-> TRUE,
          log |-> <<Ev("request", "publish", Auth01(c))>>]
    ELSE publish_after(bot_login(c, file, FALSE, probe, env))

\* InstagramBot.like_media_by_id: with the permit of the rate governor,
\* media_like is sent on the client as it is.
bot_like_media_by_id(c, permit) ==
    IF permit
    THEN Out(c, TRUE, <<Ev("can_perform", "likes", 1),
                        Ev("request", "media_like", Auth01(c))>>)
    ELSE Out(c, FALSE, <<Ev("can_perform", "likes", 0)>>)

\* The state after an upload entry point of the bot with outcome o.
BotUploadStep(o, probe, env) ==
    /\ cl' = o.c
    /\ sfile' = o.file
    /\ bot' = IF o.logged THEN [bot EXCEPT !.is_logged_in = TRUE] ELSE bot
    /\ authOp' = AuthRec("bot_upload", cl, sfile, FALSE, probe, env, o.ret, o.log)
    /\ UNCHANGED <<tx, rateVars, uploadVars>>

\* bot.upload_photo(path, caption) and the other upload entry points.
BotUpload ==
    \E probe \in ProbeResps, env \in LoginEnvs :
        /\ authOp = NoAuthOp
        /\ bot.is_logged_in => (probe = "exc" /\ env = NoEnv)
        /\ BotUploadStep(bot_upload(cl, bot.is_logged_in, sfile, probe, env), probe, env)

\* bot.like_media_by_id(media_id).
BotLikeMediaById ==
    \E permit \in BOOLEAN :
        LET o == bot_like_media_by_id(cl, permit)
        IN  /\ authOp = NoAuthOp
            /\ authOp' = AuthRec("bot_like", cl, sfile, FALSE, "exc", NoEnv, o.ret, o.log)
            /\ UNCHANGED <<tx, cl, bot, sfile, rateVars, uploadVars>>

\* What the platform answers to the logout request: HTTP 200, an HTTP error
\* status, or nothing.
LogoutResps == {"ok", "r500", "exc"}

\* logout clearing the client only when its request got through.
logout_when_sent(c, resp) ==
    LET c1  == refresh_csrf(c)
        log == <<Ev("refresh_csrf", "web_post", 0), Ev("send", "logout", 0)>>
    IN  IF resp = "ok"
        THEN Out([c1 EXCEPT !.is_authenticated = FALSE, !.user_id = "None",
                            !.username = "None"],
                 FALSE, log \o <<Ev("return", "logout", 0)>>)
        ELSE Out(c1, FALSE, log \o <<Ev("raise", "logout", 0)>>)

\* logout: _web_post of the logout form (refresh of the CSRF token, one
\* request); whatever it raises is passed over; then the flag and the
\* identity are cleared.  Nothing is returned.
logout(c, resp) ==
    LET c1  == refresh_csrf(c)
        log == <<Ev("refresh_csrf", "web_post", 0), Ev("send", "logout", 0)>>
        exc == IF resp = "ok" THEN <<>> ELSE <<Ev("except", "logout", 0)>>
    IN  Out([c1 EXCEPT !.is_authenticated = FALSE, !.user_id = "None",
                       !.username = "None"],
            FALSE, log \o exc \o <<Ev("return", "logout", 0)>>)

\* The state after cl.logout() with outcome o.
ClLogoutStep(o, resp) ==
    /\ cl' = o.c
    /\ authOp' = AuthRec("logout", cl, sfile, FALSE, resp, NoEnv, o.ret, o.log)
    /\ UNCHANGED <<tx, bot, sfile, rateVars, uploadVars>>

\* cl.logout() called on the client.
ClLogout ==
    \E resp \in LogoutResps :
        /\ authOp = NoAuthOp
        /\ ClLogoutStep(logout(cl, resp), resp)

\* bot.quit() at the end of the process: the snapshot is saved when logged
\* in.  The next process starts with a new bot and a new client; the file
\* stays.
Quit ==
    /\ authOp = NoAuthOp
    /\ sfile' = IF bot.is_logged_in THEN save_session(cl) ELSE sfile
    /\ cl' = NewClient
    /\ bot' = NewBot
    /\ authOp' = NoAuthOp
    /\ UNCHANGED <<tx, rateVars, uploadVars>>

\* The process dies without quit and is started again.
Restart ==
    /\ authOp = NoAuthOp
    /\ cl' = NewClient
    /\ bot' = NewBot
    /\ authOp' = NoAuthOp
    /\ UNCHANGED <<tx, sfile, rateVars, uploadVars>>

\* The operation has returned to its caller; the next one may start.
AuthReturn ==
    /\ authOp # NoAuthOp
    /\ authOp' = NoAuthOp
    /\ UNCHANGED <<tx, cl, bot, sfile, rateVars, uploadVars>>

\* The domains on which the platform sets its csrftoken cookie.
PlatformDomains == {"ig", "www"}

\* What a response does to the csrftoken cookie: nothing, or a Set-Cookie
\* of a token on one of the platform's domains.
NoCookie == [dom |-> "none", val |-> ""]

SetCookies == {NoCookie} \cup [dom : PlatformDomains, val : Tokens]

\* The jar after a response.
receive(c, cookie) ==
    IF cookie = NoCookie THEN c
    ELSE [c EXCEPT !.jar = set_csrf_cookie(@, cookie.dom, cookie.val)]

\* The value of the csrftoken cookie that was set last.
CurrentCsrf(jar) ==
    IF \E i \in 1..Len(jar.csrf) : jar.csrf[i].dom = jar.recent
    THEN (CHOOSE x \in {jar.csrf[i] : i \in 1..Len(jar.csrf)} : x.dom = jar.recent).val
    ELSE IF jar.csrf = <<>> THEN "" ELSE jar.csrf[Len(jar.csrf)].val

\* One request going out on the session: it carries the X-CSRFToken header
\* of the session as it is; 1 when the header is the current cookie value.
request(c, name) ==
    Ev("request", name, IF c.xcsrf = CurrentCsrf(c.jar) THEN 1 ELSE 0)

\* The answers to the successive requests of one _api_get: the status and
\* the cookie of each; the answers after the first that is not a 429 are
\* never asked for.
CsrfScripts ==
    {s \in [1..(RETRIES + 1) -> [status : {"ok", "r429"}, cookie : SetCookies]] :
        \A i \in 2..(RETRIES + 1) :
            s[i - 1].status = "ok" => s[i] = [status |-> "ok", cookie |-> NoCookie]}

\* The loop of _api_get and _api_post as the cookies see it: every attempt
\* goes out with the header the session has, and its response may set the
\* cookie; the loop holds no call of _refresh_csrf.
RECURSIVE csrf_loop(_, _, _, _)
csrf_loop(c, script, attempt, log) ==
    LET log1 == log \o <<request(c, "api_get")>>
        c1   == receive(c, script[attempt + 1].cookie)
    IN  IF script[attempt + 1].status = "r429" /\ attempt < RETRIES
        THEN csrf_loop(c1, script, attempt + 1, log1)
        ELSE Out(c1, script[attempt + 1].status = "ok", log1)

\* _api_get on the session: _refresh_csrf once, then the loop.
csrf_api_get(c, script) == csrf_loop(refresh_csrf(c), script, 0, <<>>)

\* _web_post on the session: _refresh_csrf, then one request.
csrf_web_post(c, cookie) ==
    LET c1 == refresh_csrf(c)
    IN  Out(receive(c1, cookie), TRUE, <<request(c1, "web_post")>>)

\* user_medias: one GET of the legacy query endpoint by session.get.
csrf_user_medias(c, cookie) ==
    Out(receive(c, cookie), TRUE, <<request(c, "user_medias")>>)

\* photo_upload on the session: the binary upload by session.post, then
\* _refresh_csrf and the configure call.
csrf_photo_upload(c, cookie1, cookie2) ==
    LET c1 == receive(c, cookie1)
        c2 == refresh_csrf(c1)
    IN  Out(receive(c2, cookie2), TRUE,
            <<request(c, "photo_post"), request(c2, "configure")>>)

\* The record of an operation on the session of the client.
CsrfStep(op, o) ==
    /\ authOp = NoAuthOp
    /\ cl' = o.c
    /\ authOp' = AuthRec(op, cl, sfile, FALSE, "exc", NoEnv, o.ret, o.log)
    /\ UNCHANGED <<tx, bot, sfile, rateVars, uploadVars>>

\* cl._refresh_csrf().
RefreshCsrf == CsrfStep("refresh_csrf", Out(refresh_csrf(cl), TRUE, <<>>))

\* A read through _api_get.
CsrfApiGet == \E script \in CsrfScripts : CsrfStep("api_get", csrf_api_get(cl, script))

\* A write through _web_post.
CsrfWebPost == \E cookie \in SetCookies : CsrfStep("web_post", csrf_web_post(cl, cookie))

\* cl.user_medias(user_id).
CsrfUserMedias ==
    \E cookie \in SetCookies : CsrfStep("user_medias", csrf_user_medias(cl, cookie))

\* cl.photo_upload(path, caption).
CsrfPhotoUpload ==
    \E cookie1, cookie2 \in SetCookies :
        CsrfStep("photo_upload", csrf_photo_upload(cl, cookie1, cookie2))

\* cl.save_session(SESSION_FILE).
ClSaveSession ==
    /\ authOp = NoAuthOp
    /\ sfile' = save_session(cl)
    /\ UNCHANGED <<tx, cl, bot, authOp, rateVars, uploadVars>>

\* The session of one client over its calls, the platform setting its
\* cookie as it likes.
NextCsrf ==
    \/ RefreshCsrf
    \/ CsrfApiGet
    \/ CsrfWebPost
    \/ CsrfUserMedias
    \/ CsrfPhotoUpload
    \/ ClSaveSession
    \/ ClLoadSession
    \/ AuthReturn

InitAuth ==
    /\ cl = NewClient
    /\ bot = NewBot
    /\ sfile = NoFile
    /\ authOp = NoAuthOp

NextAuth ==
    \/ ClLogin
    \/ ClLoadSession
    \/ BotLogin
    \/ BotUpload
    \/ BotLikeMediaById
    \/ ClLogout
    \/ Quit
    \/ Restart
    \/ AuthReturn

(***************************************************************************)
(* RATE GOVERNOR AND WRITE OPERATIONS                                      *)
(***************************************************************************)

Kinds == {"follows", "unfollows", "likes", "comments"}

\* The hourly ceilings of config.py, read from the environment; small here.
MAX_LIKES_PER_HOUR == 2

MAX_FOLLOWS_PER_HOUR == 2

MAX_UNFOLLOWS_PER_HOUR == 1

MAX_COMMENTS_PER_HOUR == 1

Ceiling(kind) ==
    CASE kind = "likes"     -> MAX_LIKES_PER_HOUR
      [] kind = "follows"   -> MAX_FOLLOWS_PER_HOUR
      [] kind = "unfollows" -> MAX_UNFOLLOWS_PER_HOUR
      [] OTHER              -> MAX_COMMENTS_PER_HOUR

\* daily_stats grows without limit in the code; the model stops counting here.
MaxStat == 3

\* The posts handed to strategic_commenting in one call.
MaxUrls == 2

Users == {"alice", "bob"}

\* RateLimiter.can_perform: the count of the kind in the current hourly
\* window is below the ceiling.
can_perform(r, kind, max) == r[kind] < max

\* RateLimiter.record_action: one more action of the kind in the window.
record_action(r, kind) == [r EXCEPT ![kind] = @ + 1]

\* The answers of the platform to one client call inside an operation: the
\* same answer to every request, or one 429 and then success.
OpScripts ==
    {[i \in 1..ScriptLen |-> r] : r \in {"ok", "nok", "r429"}}
        \cup {[i \in 1..ScriptLen |-> IF i = 1 THEN "r429" ELSE "ok"]}

\* A client call inside an operation: the call, its transport events and
\* whether it returned its success value (True, the user) or not.
Call(fn, script) ==
    LET t == client_call(fn, script)
    IN  [ret |-> t.ret,
         log |-> <<Ev("call", fn, 0)>> \o t.log
                   \o <<Ev("return", fn, IF t.ret \in {"True", "WebUser"} THEN 1 ELSE 0)>>]

\* What the legacy query answers for a shortcode: "ok" 200 with
\* shortcode_media carrying the id, "nok" 200 without shortcode_media or
\* without an id, "null_media" 200 with shortcode_media null,
\* "not_json" 200 with a body that is no JSON, an HTTP error status, or
\* "exc" no response.
GraphqlResps == {"ok", "nok", "null_media", "not_json", "r429", "r500", "exc"}

\* The body of the try of _shortcode_to_media_id: the id for "ok"; None for
\* a 200 without the media or its id; an AttributeError on a null
\* shortcode_media and a ValueError from r.json() are exceptions like the
\* missing response; a status other than 200 falls through.
shortcode_query(resp) ==
    CASE resp = "ok"  -> "id"
      [] resp = "nok" -> "None"
      [] resp \in {"null_media", "not_json", "exc"} -> "raise"
      [] OTHER        -> "None"

\* _shortcode_to_media_id letting the exceptions of the query through.
shortcode_to_media_id_uncaught(resp) ==
    shortcode_query(resp)

\* _shortcode_to_media_id: the query inside try / except Exception, every
\* exception logged and None returned.
shortcode_to_media_id(resp) ==
    IF shortcode_query(resp) = "raise" THEN "None" ELSE shortcode_query(resp)

\* media_pk_from_url: a URL matching none of the /p/, /reel/, /tv/ patterns
\* gives None at once; otherwise one GET of the legacy query by
\* _shortcode_to_media_id.  The log tells what was answered and what the
\* call gave: 1 the id, 0 None, -1 an exception.
PostUrls == {"malformed", "post"}

media_pk_from_url(url, resp) ==
    LET ret == IF url = "malformed" THEN "None" ELSE shortcode_to_media_id(resp)
        n   == CASE ret = "id" -> 1 [] ret = "None" -> 0 [] OTHER -> -1
    IN  [ret |-> ret,
         log |-> <<Ev("call", "media_pk_from_url", 0)>>
                   \o (IF url = "malformed" THEN <<>>
                       ELSE <<Ev("send", "graphql", 1), Ev("answer", resp, 0)>>)
                   \o <<Ev("return", "media_pk_from_url", n)>>]

\* The outcome of a rate-governed operation.
RateOut(r, f, ret, log) == [rl |-> r, fm |-> f, ret |-> ret, log |-> log]

Following(f, username) ==
    f.followed[username].status = "following"

\* follow_user asking the RateLimiter only after the requests.
follow_user_check_late(r, f, username, si, sf) ==
    LET info == Call("get_user_info", si)
        fol  == Call("user_follow", sf)
        l1   == info.log
        l2   == l1 \o fol.log
        l3   == l2 \o <<Ev("can_perform", "follows", r["follows"])>>
    IN  IF Following(f, username) THEN RateOut(r, f, FALSE, <<>>)
        ELSE IF info.ret = "None" THEN RateOut(r, f, FALSE, l1)
        ELSE IF fol.ret = "False" THEN RateOut(r, f, FALSE, l2)
        ELSE IF ~can_perform(r, "follows", MAX_FOLLOWS_PER_HOUR)
        THEN RateOut(r, f, FALSE, l3)
        ELSE RateOut(record_action(r, "follows"),
                     [f EXCEPT !.followed[username] =
                                   [status |-> "following", follows_back |-> FALSE],
                               !.follows_today = @ + 1],
                     TRUE,
                     l3 \o <<Ev("record_action", "follows", 0),
                             Ev("save_data", "followers", 0),
                             Ev("delay", "human", 0)>>)

\* FollowersManager.follow_user: ask the RateLimiter; skip a user already
\* followed; get_user_info; user_follow; on success store the profile,
\* record the action, count it in daily_stats, save and wait.
follow_user(r, f, username, si, sf) ==
    LET info == Call("get_user_info", si)
        fol  == Call("user_follow", sf)
        l0   == <<Ev("can_perform", "follows", r["follows"])>>
        l1   == l0 \o info.log
        l2   == l1 \o fol.log
    IN  IF ~can_perform(r, "follows", MAX_FOLLOWS_PER_HOUR)
        THEN RateOut(r, f, FALSE, l0)
        ELSE IF Following(f, username) THEN RateOut(r, f, FALSE, l0)
        ELSE IF info.ret = "None" THEN RateOut(r, f, FALSE, l1)
        ELSE IF fol.ret = "False" THEN RateOut(r, f, FALSE, l2)
        ELSE RateOut(record_action(r, "follows"),
                     [f EXCEPT !.followed[username] =
                                   [status |-> "following", follows_back |-> FALSE],
                               !.follows_today = @ + 1],
                     TRUE,
                     l2 \o <<Ev("record_action", "follows", 0),
                             Ev("save_data", "followers", 0),
                             Ev("delay", "human", 0)>>)

\* check_if_follows_back: get_user_info, then the following list of the
\* user is searched for the own id; False on any failure.
FollowsBackEnvs == {"unknown_user", "follows_back", "not_back"}

check_if_follows_back(fb) ==
    IF fb = "unknown_user"
    THEN [ret |-> FALSE, log |-> Call("get_user_info", [i \in 1..ScriptLen |-> "nok"]).log]
    ELSE [ret |-> fb = "follows_back",
          log |-> Call("get_user_info", [i \in 1..ScriptLen |-> "ok"]).log
                      \o Call("api_get", [i \in 1..ScriptLen |-> "ok"]).log]

\* The usernames as the operator types them and as the platform lists
\* them: with capitals and surrounding blanks or without.
RawNames == {"alice", "Alice", " alice ", "bob"}

\* username.lower().strip().
lower_strip(username) ==
    IF username \in {"Alice", " alice "} THEN "alice" ELSE username

\* is_whitelisted looking for the username as it was typed.
is_whitelisted_as_typed(f, username) == username \in f.whitelist

\* FollowersManager.is_whitelisted: the lower-cased, stripped username is
\* looked for in the whitelist.
is_whitelisted(f, username) == lower_strip(username) \in f.whitelist

\* FollowersManager.unfollow_user: a whitelisted user is kept; ask the
\* RateLimiter; a user who follows back is kept and marked; resolve the id;
\* user_unfollow; on success mark the user, record the action, count, save.
unfollow_user(r, f, username, check, fb, si, su) ==
    LET l0   == <<Ev("can_perform", "unfollows", r["unfollows"])>>
        chk  == IF check THEN check_if_follows_back(fb)
                ELSE [ret |-> FALSE, log |-> <<>>]
        l1   == l0 \o chk.log
        info == Call("get_user_info", si)
        l2   == l1 \o info.log
        unf  == Call("user_unfollow", su)
        l3   == l2 \o unf.log
        known == username \in DOMAIN f.followed /\ f.followed[username].status # "none"
    IN  IF is_whitelisted(f, username) THEN RateOut(r, f, FALSE, <<>>)
        ELSE IF ~can_perform(r, "unfollows", MAX_UNFOLLOWS_PER_HOUR)
        THEN RateOut(r, f, FALSE, l0)
        ELSE IF chk.ret
        THEN RateOut(r,
                     IF known THEN [f EXCEPT !.followed[username].follows_back = TRUE]
                     ELSE f,
                     FALSE,
                     IF known THEN l1 \o <<Ev("save_data", "followers", 0)>> ELSE l1)
        ELSE IF info.ret = "None" THEN RateOut(r, f, FALSE, l2)
        ELSE IF unf.ret = "False" THEN RateOut(r, f, FALSE, l3)
        ELSE RateOut(record_action(r, "unfollows"),
                     IF known
                     THEN [f EXCEPT !.followed[username].status = "unfollowed",
                                    !.unfollows_today = @ + 1]
                     ELSE [f EXCEPT !.unfollows_today = @ + 1],
                     TRUE,
                     l3 \o <<Ev("record_action", "unfollows", 0),
                             Ev("save_data", "followers", 0),
                             Ev("delay", "human", 0)>>)

\* InstagramBot.like_post: ask the RateLimiter; resolve the URL; media_like,
\* whose result is not looked at; record the action; wait; True.
like_post(r, f, url, resp, sl) ==
    LET l0  == <<Ev("can_perform", "likes", r["likes"])>>
        pk  == media_pk_from_url(url, resp)
        l1  == l0 \o pk.log
        lik == Call("media_like", sl)
    IN  IF ~can_perform(r, "likes", MAX_LIKES_PER_HOUR) THEN RateOut(r, f, FALSE, l0)
        ELSE IF pk.ret # "id" THEN RateOut(r, f, FALSE, l1)
        ELSE RateOut(record_action(r, "likes"), f, TRUE,
                     l1 \o lik.log \o <<Ev("record_action", "likes", 0),
                                        Ev("delay", "human", 0)>>)

\* InstagramBot.like_media_by_id: the same without the URL.
like_media_by_id(r, f, sl) ==
    LET l0  == <<Ev("can_perform", "likes", r["likes"])>>
        lik == Call("media_like", sl)
    IN  IF ~can_perform(r, "likes", MAX_LIKES_PER_HOUR) THEN RateOut(r, f, FALSE, l0)
        ELSE RateOut(record_action(r, "likes"), f, TRUE,
                     l0 \o lik.log \o <<Ev("record_action", "likes", 0),
                                        Ev("delay", "human", 0)>>)

\* One post of strategic_commenting: a blank entry, a URL without a
\* shortcode, a post that does not resolve, or a post that is commented,
\* the platform accepting the comment or not.
PostEnvs == {"blank", "malformed", "unresolved", "accepted", "refused"}

PostLists == UNION {[1..n -> PostEnvs] : n \in 0..MaxUrls}

\* GrowthEngine.strategic_commenting: for each of the first max_comments + 3
\* posts, until max_comments are sent: skip a blank one; resolve the URL,
\* skip when unresolved; media_comment, whose result is not looked at;
\* count the comment; wait.  The RateLimiter is not asked and nothing is
\* recorded.  The loop yields the number counted.
RECURSIVE commenting_loop(_, _, _, _, _)
commenting_loop(posts, i, max_comments, commented, log) ==
    IF i > Len(posts) \/ i > max_comments + 3 \/ commented >= max_comments
    THEN [ret |-> commented, log |-> log]
    ELSE LET p  == posts[i]
             pk == media_pk_from_url(IF p = "malformed" THEN "malformed" ELSE "post",
                                     IF p = "unresolved" THEN "nok" ELSE "ok")
             cm == Call("media_comment",
                        [j \in 1..ScriptLen |-> IF p = "accepted" THEN "ok" ELSE "nok"])
         IN  IF p = "blank"
             THEN commenting_loop(posts, i + 1, max_comments, commented, log)
             ELSE IF pk.ret # "id"
             THEN commenting_loop(posts, i + 1, max_comments, commented, log \o pk.log)
             ELSE commenting_loop(posts, i + 1, max_comments, commented + 1,
                      log \o pk.log \o cm.log \o <<Ev("delay", "human", 0)>>)

\* The result kept is whether any comment was counted.
strategic_commenting(r, f, posts, max_comments) ==
    LET o == commenting_loop(posts, 1, max_comments, 0, <<>>)
    IN  RateOut(r, f, o.ret > 0, o.log \o <<Ev("save_stats", "growth", 0)>>)

\* The lists get_following_list may give clean_non_followers.
MaxFollowing == 2

\* FollowersManager.clean_non_followers from place i of the following list
\* on, count users unfollowed so far: stop at max_unfollows; pass over a
\* whitelisted user and a user of the history followed after the cutoff
\* (recent); unfollow_user with check_follows_back for the others, counting
\* the successes.  The visit of each user opens its part of the log.
RECURSIVE clean_non_followers(_, _, _, _, _, _, _, _, _)
clean_non_followers(r, f, following, i, count, max_unfollows, recent, env, log) ==
    LET username == following[i]
        passed == \/ is_whitelisted(f, username)
                  \/ /\ username \in DOMAIN f.followed
                     /\ f.followed[username].status # "none"
                     /\ username \in recent
        Rest(o) == clean_non_followers(o.rl, o.fm, following, i + 1,
                                       IF o.ret THEN count + 1 ELSE count,
                                       max_unfollows, recent, env,
                                       log \o <<Ev("visit", username, i)>> \o o.log)
    IN  IF i > Len(following) \/ count >= max_unfollows
        THEN RateOut(r, f, count > 0,
                     log \o <<Ev("return", "clean_non_followers", count)>>)
        ELSE Rest(IF passed THEN RateOut(r, f, FALSE, <<>>)
                  ELSE unfollow_user(r, f, username, TRUE, env.fb, env.si, env.su))

\* The record of the last rate-governed operation: the RateLimiter and the
\* FollowersManager as the operation found them, its result and its log.
RateRec(op, kind, arg, r, f, ret, log) ==
    [op |-> op, kind |-> kind, arg |-> arg, rl |-> r, fm |-> f, ret |-> ret,
     log |-> log]

NewRateLimiter == [k \in Kinds |-> 0]

NewFollowers ==
    [followed |-> [u \in Users |-> [status |-> "none", follows_back |-> FALSE]],
     whitelist |-> {}, follows_today |-> 0, unfollows_today |-> 0]

NoRateOp == RateRec("none", "none", "none", NewRateLimiter, NewFollowers, FALSE, <<>>)

\* The operation o of the given name and kind has run.
RateStep(op, kind, arg, o) ==
    /\ rl' = o.rl
    /\ fm' = o.fm
    /\ rateOp' = RateRec(op, kind, arg, rl, fm, o.ret, o.log)

FollowUser ==
    /\ rateOp = NoRateOp
    /\ fm.follows_today < MaxStat
    /\ \E u \in Users, si \in OpScripts, sf \in OpScripts :
          RateStep("follow_user", "follows", u, follow_user(rl, fm, u, si, sf))
    /\ UNCHANGED <<tx, authVars, uploadVars>>

UnfollowUser ==
    /\ rateOp = NoRateOp
    /\ fm.unfollows_today < MaxStat
    /\ \E u \in Users, check \in BOOLEAN, fb \in FollowsBackEnvs,
          si \in OpScripts, su \in OpScripts :
          RateStep("unfollow_user", "unfollows", u,
                   unfollow_user(rl, fm, u, check, fb, si, su))
    /\ UNCHANGED <<tx, authVars, uploadVars>>

LikePost ==
    /\ rateOp = NoRateOp
    /\ \E url \in PostUrls, resp \in GraphqlResps, sl \in OpScripts :
          RateStep("like_post", "likes", url, like_post(rl, fm, url, resp, sl))
    /\ UNCHANGED <<tx, authVars, uploadVars>>

LikeMediaById ==
    /\ rateOp = NoRateOp
    /\ \E sl \in OpScripts :
          RateStep("like_media_by_id", "likes", "id", like_media_by_id(rl, fm, sl))
    /\ UNCHANGED <<tx, authVars, uploadVars>>

StrategicCommenting ==
    /\ rateOp = NoRateOp
    /\ \E posts \in PostLists, max_comments \in 1..MaxUrls :
          RateStep("strategic_commenting", "comments", "posts",
                   strategic_commenting(rl, fm, posts, max_comments))
    /\ UNCHANGED <<tx, authVars, uploadVars>>

\* add_to_whitelist(username): the lower-cased, stripped username joins the
\* whitelist, which is saved.
AddToWhitelist ==
    /\ rateOp = NoRateOp
    /\ \E username \in RawNames :
          fm' = [fm EXCEPT !.whitelist = @ \cup {lower_strip(username)}]
    /\ UNCHANGED <<tx, authVars, rl, rateOp, uploadVars>>

\* remove_from_whitelist(username): the lower-cased, stripped username
\* leaves the whitelist, which is saved.
RemoveFromWhitelist ==
    /\ rateOp = NoRateOp
    /\ \E username \in RawNames :
          fm' = [fm EXCEPT !.whitelist = @ \ {lower_strip(username)}]
    /\ UNCHANGED <<tx, authVars, rl, rateOp, uploadVars>>

\* unfollow_user(username) with the username as typed.
UnfollowTyped ==
    /\ rateOp = NoRateOp
    /\ fm.unfollows_today < MaxStat
    /\ \E username \in RawNames, check \in BOOLEAN,
          fb \in {"follows_back", "not_back"},
          s \in {x \in OpScripts : x[1] # "r429"} :
          RateStep("unfollow_user", "unfollows", username,
                   unfollow_user(rl, fm, username, check, fb, s, s))
    /\ UNCHANGED <<tx, authVars, uploadVars>>

\* clean_non_followers(max_unfollows) over the list the platform gives.
CleanNonFollowers ==
    /\ rateOp = NoRateOp
    /\ fm.unfollows_today + MaxFollowing <= MaxStat
    /\ \E n \in 0..MaxFollowing :
          \E following \in [1..n -> RawNames], max_unfollows \in 1..MaxFollowing,
             recent \in {{}, Users}, s \in {x \in OpScripts : x[1] # "r429"} :
             RateStep("clean_non_followers", "unfollows", "following",
                      clean_non_followers(rl, fm, following, 1, 0, max_unfollows,
                          recent, [fb |-> "not_back", si |-> s, su |-> s], <<>>))
    /\ UNCHANGED <<tx, authVars, uploadVars>>

\* The hourly window rolls over: the counts start again.
HourRollover ==
    /\ rateOp = NoRateOp
    /\ rl' = NewRateLimiter
    /\ UNCHANGED <<tx, authVars, fm, rateOp, uploadVars>>

\* The operation has returned to its caller; the next one may start.
RateReturn ==
    /\ rateOp # NoRateOp
    /\ rateOp' = NoRateOp
    /\ UNCHANGED <<tx, authVars, rl, fm, uploadVars>>

InitRate ==
    /\ rl = NewRateLimiter
    /\ fm = NewFollowers
    /\ rateOp = NoRateOp

NextRate ==
    \/ FollowUser
    \/ UnfollowUser
    \/ LikePost
    \/ LikeMediaById
    \/ StrategicCommenting
    \/ HourRollover
    \/ RateReturn

(***************************************************************************)
(* UPLOAD PIPELINE                                                         *)
(***************************************************************************)

\* The interactive menu thread and the scheduler daemon thread.
Threads == {"menu", "daemon"}

PhotoOps == {"photo_upload", "photo_upload_to_story"}

VideoOps == {"video_upload", "video_upload_to_story", "clip_upload"}

PublishOps == PhotoOps \cup VideoOps

\* The clock runs from 1 to MaxClock milliseconds.
MaxClock == 2

\* A duration in seconds is a float in the program and a whole number of
\* microseconds here, ffprobe printing six decimals.
Micro == 1000000

\* Durations that ffprobe reports: 10 s, 95 s and 10.033333 s; ProbeFailed
\* stands for a probe that is absent or fails.
Durations == {10 * Micro, 95 * Micro, 10033333}

ProbeFailed == -1

\* The defaults of _get_video_info.
DEFAULT_DURATION == 15

\* The advisory ceilings of video_upload_to_story and clip_upload.
STORY_MAX_SECONDS == 60

CLIP_MAX_SECONDS == 90

\* _get_video_info with duration_ms left at its default.
get_video_info_ms_default(probe) ==
    IF probe = ProbeFailed
    THEN [duration |-> DEFAULT_DURATION * Micro, duration_ms |-> 15000,
          width |-> 1080, height |-> 1920]
    ELSE [duration |-> probe, duration_ms |-> 15000,
          width |-> 720, height |-> 1280]

\* _get_video_info: duration is the probed float of seconds and
\* duration_ms is int(duration * 1000), which drops what is less than a
\* millisecond; the defaults 15.0 and 15000 when the probe fails.
get_video_info(probe) ==
    IF probe = ProbeFailed
    THEN [duration |-> DEFAULT_DURATION * Micro, duration_ms |-> 15000,
          width |-> 1080, height |-> 1920]
    ELSE [duration |-> probe, duration_ms |-> probe \div 1000,
          width |-> 720, height |-> 1280]

\* One request of a pipeline run: its phase, the upload id it carries and
\* the duration it declares (milliseconds in the binary upload of a video,
\* seconds in the configure call of a video, 0 otherwise).
Req(phase, uid, dur) == [phase |-> phase, uid |-> uid, dur |-> dur]

Phases(reqs) == [i \in 1..Len(reqs) |-> reqs[i].phase]

\* A thread that is in no publish call.
IdleRun ==
    [op |-> "none", pc |-> "idle", exists |-> FALSE, upload_id |-> 0,
     probe |-> 0, duration |-> 0, duration_ms |-> 0, width |-> 0, height |-> 0,
     warned |-> FALSE, bin |-> "none",
     thumb_src |-> "none", thumb |-> "none", tmp |-> FALSE, conf |-> "none",
     reqs |-> <<>>, result |-> "none"]

\* The advisory check of the duration: story videos over 60 s and clips
\* over 90 s are warned about.
too_long(op, duration) ==
    \/ op = "video_upload_to_story" /\ duration > STORY_MAX_SECONDS * Micro
    \/ op = "clip_upload" /\ duration > CLIP_MAX_SECONDS * Micro

\* The start of a publish call refusing a video over the advisory ceiling.
pub_init_reject_long(op, now, exists, probe) ==
    LET info == IF op \in VideoOps THEN get_video_info(probe)
                ELSE [duration |-> 0, duration_ms |-> 0, width |-> 0, height |-> 0]
    IN  IF ~exists
        THEN [IdleRun EXCEPT !.op = op, !.pc = "done", !.result = "failed"]
        ELSE IF too_long(op, info.duration)
        THEN [IdleRun EXCEPT !.op = op, !.pc = "done", !.exists = TRUE,
                             !.upload_id = now,
                             !.probe = IF op \in VideoOps THEN probe ELSE 0,
                             !.duration = info.duration,
                             !.duration_ms = info.duration_ms,
                             !.width = info.width, !.height = info.height,
                             !.warned = TRUE, !.result = "failed"]
        ELSE [IdleRun EXCEPT !.op = op, !.pc = "binary", !.exists = TRUE,
                             !.upload_id = now,
                             !.probe = IF op \in VideoOps THEN probe ELSE 0,
                             !.duration = info.duration,
                             !.duration_ms = info.duration_ms,
                             !.width = info.width, !.height = info.height]

\* The start of a publish call ending the call when the probe fails.
pub_init_probe_fatal(op, now, exists, probe) ==
    LET info == IF op \in VideoOps THEN get_video_info(probe)
                ELSE [duration |-> 0, duration_ms |-> 0, width |-> 0, height |-> 0]
    IN  IF ~exists
        THEN [IdleRun EXCEPT !.op = op, !.pc = "done", !.result = "failed"]
        ELSE IF op \in VideoOps /\ probe = ProbeFailed
        THEN [IdleRun EXCEPT !.op = op, !.pc = "done", !.exists = TRUE,
                             !.upload_id = now, !.probe = probe,
                             !.result = "failed"]
        ELSE [IdleRun EXCEPT !.op = op, !.pc = "binary", !.exists = TRUE,
                             !.upload_id = now,
                             !.probe = IF op \in VideoOps THEN probe ELSE 0,
                             !.duration = info.duration,
                             !.duration_ms = info.duration_ms,
                             !.width = info.width, !.height = info.height,
                             !.warned = too_long(op, info.duration)]

\* The start of a publish call: a missing file ends it at once; otherwise
\* the upload id is the clock in milliseconds and, for a video, the file is
\* probed and an overlong story video or clip is warned about.
pub_init(op, now, exists, probe) ==
    LET info == IF op \in VideoOps THEN get_video_info(probe)
                ELSE [duration |-> 0, duration_ms |-> 0, width |-> 0, height |-> 0]
    IN  IF ~exists
        THEN [IdleRun EXCEPT !.op = op, !.pc = "done", !.result = "failed"]
        ELSE [IdleRun EXCEPT !.op = op, !.pc = "binary", !.exists = TRUE,
                             !.upload_id = now,
                             !.probe = IF op \in VideoOps THEN probe ELSE 0,
                             !.duration = info.duration,
                             !.duration_ms = info.duration_ms,
                             !.width = info.width, !.height = info.height,
                             !.warned = too_long(op, info.duration)]

\* What the platform does with a binary upload: accepts it (200), rejects
\* it (another status), or the request raises; for a video the
\* initialisation GET may raise before the bytes are posted.
BinaryEnvs == {"ok", "rejected", "exc_init", "exc"}

UploadEnvs == {"ok", "rejected", "exc"}

Fail(run) == [run EXCEPT !.pc = "done", !.result = "failed"]

\* The binary upload with its result not looked at: the call goes on to
\* the next phase unless the request raised.
pub_binary_result_ignored(run, resp) ==
    LET photo == <<Req("photo_post", run.upload_id, 0)>>
        init  == <<Req("video_init", run.upload_id, run.duration_ms)>>
        post  == <<Req("video_post", run.upload_id, run.duration_ms)>>
        sent  == IF run.op \in PhotoOps THEN photo
                 ELSE IF resp = "exc_init" THEN init
                 ELSE init \o post
        r1    == [run EXCEPT !.reqs = @ \o sent,
                             !.bin = IF resp = "exc_init" THEN "exc" ELSE resp]
    IN  IF resp \in {"ok", "rejected"}
        THEN [r1 EXCEPT !.pc = IF run.op \in VideoOps THEN "thumb" ELSE "configure"]
        ELSE Fail(r1)

\* _upload_photo_binary / _upload_video_binary as called first by the
\* publish call: a photo is one POST; a video an initialisation GET and a
\* POST of the bytes, both with the parameter blob carrying the upload id
\* and the duration in milliseconds.  Not accepted, the call returns None.
pub_binary(run, resp) ==
    LET photo == <<Req("photo_post", run.upload_id, 0)>>
        init  == <<Req("video_init", run.upload_id, run.duration_ms)>>
        post  == <<Req("video_post", run.upload_id, run.duration_ms)>>
        sent  == IF run.op \in PhotoOps THEN photo
                 ELSE IF resp = "exc_init" THEN init
                 ELSE init \o post
        r1    == [run EXCEPT !.reqs = @ \o sent,
                             !.bin = IF resp = "exc_init" THEN "exc" ELSE resp]
    IN  IF resp = "ok"
        THEN [r1 EXCEPT !.pc = IF run.op \in VideoOps THEN "thumb" ELSE "configure"]
        ELSE Fail(r1)

\* Where the thumbnail comes from: the thumbnail_path argument, a frame
\* extracted by ffmpeg into a temporary file, or nowhere (no argument and
\* the extraction failed).
ThumbSources == {"given", "extracted", "absent"}

\* The thumbnail phase ending the call when the platform rejects the
\* thumbnail.
pub_thumbnail_stop_on_reject(run, src, resp) ==
    LET r1 == [run EXCEPT !.thumb_src = src]
        r2 == [r1 EXCEPT !.reqs = @ \o <<Req("thumb_post", run.upload_id, 0)>>,
                         !.thumb = resp]
    IN  IF src = "absent" THEN [r1 EXCEPT !.pc = "configure"]
        ELSE IF resp = "exc" THEN Fail([r2 EXCEPT !.tmp = (src = "extracted")])
        ELSE IF resp = "rejected" THEN Fail(r2)
        ELSE [r2 EXCEPT !.pc = "configure"]

\* The thumbnail phase deriving an upload id of its own.
pub_thumbnail_other_id(run, src, resp) ==
    LET r1 == [run EXCEPT !.thumb_src = src]
        r2 == [r1 EXCEPT !.reqs = @ \o <<Req("thumb_post", run.upload_id + 1, 0)>>,
                         !.thumb = resp]
    IN  IF src = "absent" THEN [r1 EXCEPT !.pc = "configure"]
        ELSE IF resp = "exc" THEN Fail([r2 EXCEPT !.tmp = (src = "extracted")])
        ELSE [r2 EXCEPT !.pc = "configure"]

\* The thumbnail phase of a video: with a thumbnail, upload it with the
\* upload id of the run by _upload_photo_binary, whose result is not looked
\* at, and remove an extracted file; an exception of the upload ends the
\* call before the file is removed.  Without a thumbnail nothing is sent.
pub_thumbnail(run, src, resp) ==
    LET r1 == [run EXCEPT !.thumb_src = src]
        r2 == [r1 EXCEPT !.reqs = @ \o <<Req("thumb_post", run.upload_id, 0)>>,
                         !.thumb = resp]
    IN  IF src = "absent" THEN [r1 EXCEPT !.pc = "configure"]
        ELSE IF resp = "exc" THEN Fail([r2 EXCEPT !.tmp = (src = "extracted")])
        ELSE [r2 EXCEPT !.pc = "configure"]

\* What the platform answers to the configure call: 200 with status ok and
\* a media descriptor, 200 with status ok and no media field, 200 with
\* status ok and a null media field, 200 with another status, another HTTP
\* status, or the request raises.
ConfigureEnvs == {"ok_media", "ok_nomedia", "ok_nullmedia", "not_ok",
                  "http_error", "exc"}

\* The publish calls that read the code of the media descriptor for their
\* log line; the story calls do not look at the descriptor.
MediaCodeOps == {"photo_upload", "video_upload", "clip_upload"}

\* What the publish call makes of the answer to configure: 200 with status
\* ok is Published, with result.get("media", {}) standing in for a missing
\* descriptor; a null descriptor raises in media.get where the code is
\* read, which the call catches and returns None for.
configured(op, resp) ==
    \/ resp \in {"ok_media", "ok_nomedia"}
    \/ resp = "ok_nullmedia" /\ op \notin MediaCodeOps

\* The configure phase sending the configure request again after a failure.
pub_configure_retry(run, resp) ==
    LET req == Req("configure", run.upload_id, run.duration)
        r1  == [run EXCEPT !.reqs = @ \o (IF configured(run.op, resp)
                                          THEN <<req>> ELSE <<req, req>>),
                           !.conf = resp, !.pc = "done"]
    IN  [r1 EXCEPT !.result = IF configured(run.op, resp)
                              THEN "published" ELSE "failed"]

\* The configure phase deriving the upload id anew from the clock.
pub_configure_new_id(run, resp) ==
    LET r1 == [run EXCEPT !.reqs = @ \o <<Req("configure", run.upload_id + 1,
                                              run.duration)>>,
                          !.conf = resp, !.pc = "done"]
    IN  [r1 EXCEPT !.result = IF configured(run.op, resp)
                              THEN "published" ELSE "failed"]

\* The configure phase: one POST to the configure endpoint of the surface
\* with the upload id and, for a video, the duration in seconds; the call
\* returns the answer when it is Published and None otherwise.
pub_configure(run, resp) ==
    LET r1 == [run EXCEPT !.reqs = @ \o <<Req("configure", run.upload_id,
                                              run.duration)>>,
                          !.conf = resp, !.pc = "done"]
    IN  [r1 EXCEPT !.result = IF configured(run.op, resp)
                              THEN "published" ELSE "failed"]

\* A thread enters a publish call.
PubStart(t, ops, existSet, probeSet) ==
    /\ pub[t].pc = "idle"
    /\ \E op \in ops, exists \in existSet, probe \in probeSet :
          pub' = [pub EXCEPT ![t] = pub_init(op, clock, exists, probe)]
    /\ UNCHANGED <<tx, authVars, rateVars, clock, sched>>

\* The binary upload of the media.
PubBinary(t, envs) ==
    /\ pub[t].pc = "binary"
    /\ \E resp \in envs :
          /\ resp = "exc_init" => pub[t].op \in VideoOps
          /\ pub' = [pub EXCEPT ![t] = pub_binary(pub[t], resp)]
    /\ UNCHANGED <<tx, authVars, rateVars, clock, sched>>

\* The thumbnail phase of a video.
PubThumbnail(t, srcs, envs) ==
    /\ pub[t].pc = "thumb"
    /\ \E src \in srcs, resp \in envs :
          /\ src = "absent" => resp = "ok"
          /\ pub' = [pub EXCEPT ![t] = pub_thumbnail(pub[t], src, resp)]
    /\ UNCHANGED <<tx, authVars, rateVars, clock, sched>>

\* The configure call.
PubConfigure(t, envs) ==
    /\ pub[t].pc = "configure"
    /\ \E resp \in envs :
          pub' = [pub EXCEPT ![t] = pub_configure(pub[t], resp)]
    /\ UNCHANGED <<tx, authVars, rateVars, clock, sched>>

\* The publish call returns to its caller.
PubReturn(t) ==
    /\ pub[t].pc = "done"
    /\ pub' = [pub EXCEPT ![t] = IdleRun]
    /\ UNCHANGED <<tx, authVars, rateVars, clock, sched>>

\* A millisecond passes.
Tick ==
    /\ clock < MaxClock
    /\ clock' = clock + 1
    /\ UNCHANGED <<tx, authVars, rateVars, pub, sched>>

\* The posts the operator may schedule.
Posts == {"p1", "p2"}

\* How many times the platform may accept the media of one post.
MaxPublished == 2

\* ScheduledPost.is_due: not posted, and now within the five minutes after
\* the scheduled time (window).
is_due(posted, window) == ~posted /\ window

\* schedule_post, from the menu: the post is appended to posts_queue, not
\* posted, and the queue is saved.
SchedulePost ==
    /\ sched.at["menu"].pc = "idle"
    /\ \E p \in Posts :
          /\ \A i \in 1..Len(sched.queue) : sched.queue[i] # p
          /\ sched' = [sched EXCEPT !.queue = Append(@, p)]
    /\ UNCHANGED <<tx, authVars, rateVars, clock, pub>>

\* check_and_post in thread t, up to the call of the publish operation: the
\* queue is gone through in order and the first post that is due is taken;
\* windows are the posts whose five minutes contain now.  Without a due post
\* the call returns False at once.
CheckAndPostBegin(t) ==
    /\ sched.at[t].pc = "idle"
    /\ \E windows \in SUBSET Posts :
          LET due == {i \in 1..Len(sched.queue) :
                         is_due(sched.posted[sched.queue[i]],
                                sched.queue[i] \in windows)}
              first == CHOOSE i \in due : \A j \in due : i <= j
          IN  /\ due # {}
              /\ sched' = [sched EXCEPT !.at[t] = [pc |-> "publishing",
                                                   post |-> sched.queue[first]]]
    /\ UNCHANGED <<tx, authVars, rateVars, clock, pub>>

\* check_and_post in thread t, from the return of the publish operation:
\* on success the post is marked posted; the queue is saved and success is
\* returned.
CheckAndPostEnd(t) ==
    /\ sched.at[t].pc = "publishing"
    /\ \E success \in BOOLEAN :
          LET p == sched.at[t].post
          IN  /\ success => sched.published[p] < MaxPublished
              /\ sched' = [sched EXCEPT
                             !.published[p] = IF success THEN @ + 1 ELSE @,
                             !.posted[p] = IF success THEN TRUE ELSE @,
                             !.at[t] = [pc |-> "idle", post |-> "none"]]
    /\ UNCHANGED <<tx, authVars, rateVars, clock, pub>>

\* The scheduler daemon thread and the menu's "publish now" both call
\* check_and_post of the one ContentScheduler.
NextScheduler ==
    \/ SchedulePost
    \/ \E t \in Threads : CheckAndPostBegin(t)
    \/ \E t \in Threads : CheckAndPostEnd(t)

InitUpload ==
    /\ clock = 1
    /\ pub = [t \in Threads |-> IdleRun]
    /\ sched = [queue |-> <<>>,
                posted |-> [p \in Posts |-> FALSE],
                published |-> [p \in Posts |-> 0],
                at |-> [t \in Threads |-> [pc |-> "idle", post |-> "none"]]]

\* One thread publishing, the platform and the tools behaving in every way.
NextUpload ==
    \/ PubStart("menu", PublishOps, BOOLEAN, Durations \cup {ProbeFailed})
    \/ PubBinary("menu", BinaryEnvs)
    \/ PubThumbnail("menu", ThumbSources, UploadEnvs)
    \/ PubConfigure("menu", ConfigureEnvs)
    \/ PubReturn("menu")
    \/ Tick

\* The menu thread and the daemon thread publishing at the same time, on
\* files that exist, the probe working and a frame being extracted.
NextPublishers ==
    \/ \E t \in Threads : PubStart(t, PublishOps, {TRUE}, {10 * Micro})
    \/ \E t \in Threads : PubBinary(t, {"ok", "rejected"})
    \/ \E t \in Threads : PubThumbnail(t, {"extracted"}, {"ok"})
    \/ \E t \in Threads : PubConfigure(t, {"ok_media", "http_error"})
    \/ \E t \in Threads : PubReturn(t)
    \/ Tick

InitTransport == tx = NoCall

Init == InitTransport /\ InitAuth /\ InitRate /\ InitUpload

NextTransport == TransportCall \/ TransportReturn

SpecTransport == Init /\ [][NextTransport]_vars

SpecAuth == Init /\ [][NextAuth]_vars

SpecRate == Init /\ [][NextRate]_vars

SpecUpload == Init /\ [][NextUpload]_vars

SpecPublishers == Init /\ [][NextPublishers]_vars

SpecCsrf == Init /\ [][NextCsrf]_vars

SpecPaging == Init /\ [][NextPaging]_vars

SpecScheduler == Init /\ [][NextScheduler]_vars

\* The operator editing the whitelist between follows, unfollows and
\* cleanings.
SpecWhitelist ==
    Init /\ [][AddToWhitelist \/ RemoveFromWhitelist \/ FollowUser \/ UnfollowTyped
                  \/ CleanNonFollowers \/ RateReturn]_vars

\* The thread inside a fetch keeps running: a pass that can be taken is
\* taken.
SpecFetch == Init /\ [][NextFetch]_vars /\ WF_vars(FetchPass)

Next ==
    \/ NextTransport \/ NextAuth \/ NextRate \/ NextUpload \/ NextPublishers
    \/ NextCsrf \/ NextPaging \/ NextFetch \/ NextScheduler
    \/ AddToWhitelist \/ RemoveFromWhitelist \/ UnfollowTyped \/ CleanNonFollowers

Spec == Init /\ [][Next]_vars

(***************************************************************************)
(* CLAIMS                                                                  *)
(***************************************************************************)

\* C2, as claimed: after load_session on a snapshot whose verification
\* probe does not succeed, load_session has returned False and
\* is_authenticated is False, whatever the client was before.
C2_FailedRestoreIsUnauthenticated ==
    (authOp.op = "load_session" /\ authOp.file.exists
        /\ ~verify_session(authOp.probe))
    => (authOp.ret = FALSE /\ cl.is_authenticated = FALSE)

\* The platform answers k times 429 (1 <= k <= RETRIES) and then a 200.
RetryThenSuccess(script, k) ==
    /\ k \in 1..RETRIES
    /\ \A i \in 1..k : script[i] = "r429"
    /\ script[k + 1] \in Http200

C4_RateLimitedAfterBoundedRetries ==
    /\ Sent(tx.log) <= RETRIES + 1
    /\ (tx.fn # "none" /\ \A i \in 1..ScriptLen : tx.script[i] = "r429")
          => /\ tx.outcome = "raised"
             /\ tx.body = "r429"
             /\ tx.log[Len(tx.log)].ev = "send"
             /\ ConvOf(tx.fn) \in {"api_get", "api_post"}
                   => /\ Sent(tx.log) = RETRIES + 1
                      /\ EventsOf(tx.log, "sleep") =
                            [i \in 1..RETRIES |->
                                Ev("sleep", ConvOf(tx.fn), BASE_WAIT * i)]

\* C4, witness: _api_get answered 429 throughout has raised after three
\* requests.
C4_Witness ==
    /\ tx.fn = "api_get"
    /\ \A i \in 1..ScriptLen : tx.script[i] = "r429"
    /\ tx.outcome = "raised"
    /\ Sent(tx.log) = RETRIES + 1

\* The operation used the snapshot: bot.login without force_new found the
\* file, and the platform accepted the probe.
RestoredFromSnapshot ==
    /\ authOp.op = "bot_login"
    /\ ~authOp.force_new
    /\ authOp.file.exists
    /\ verify_session(authOp.probe)

\* C8: bot.login on a snapshot written by an earlier successful login, the
\* probe succeeding, ends Authenticated with the identity of the snapshot
\* and has sent the probe and nothing else: no credential submission.
C8_RestoreWithoutCredentials ==
    RestoredFromSnapshot
    => /\ authOp.ret = TRUE
       /\ cl.is_authenticated
       /\ bot.is_logged_in
       /\ cl.user_id = authOp.file.user_id
       /\ cl.username = authOp.file.username
       /\ EventsOf(authOp.log, "send") = <<Ev("send", "probe", 0)>>

\* C8, witness: a new process, not authenticated, has restored the session
\* of alice from the snapshot of an earlier login.
C8_Witness ==
    /\ RestoredFromSnapshot
    /\ ~authOp.before.is_authenticated
    /\ authOp.file.username = USER
    /\ cl.is_authenticated
    /\ cl.username = USER

\* In a log, the event at i is followed by save_session with nothing but
\* the CSRF refresh of the same transition in between.
SavedRightAfter(log, i) ==
    \E j \in (i + 1)..Len(log) :
        /\ log[j].ev = "save_session"
        /\ \A k \in (i + 1)..(j - 1) : log[k].ev = "refresh_csrf"

C1_CeilingAndPermitBeforeNetwork ==
    /\ \A k \in Kinds : rl[k] <= Ceiling(k)
    /\ (rateOp.op # "none" /\ Sent(rateOp.log) > 0)
          => rateOp.log[1] = Ev("can_perform", rateOp.kind, rateOp.rl[rateOp.kind])
    /\ (rateOp.op # "none" /\ rateOp.rl[rateOp.kind] >= Ceiling(rateOp.kind))
          => (rateOp.ret = FALSE /\ Sent(rateOp.log) = 0)

\* follow_user was called with the hourly follow count at the ceiling.
FollowAtCeiling ==
    /\ rateOp.op = "follow_user"
    /\ rateOp.rl["follows"] >= MAX_FOLLOWS_PER_HOUR

\* C7: follow_user called with the follow count at the ceiling returns
\* False, leaves the counts of the RateLimiter, followed_users and the
\* daily statistics as they were, and sends no request.
C7_FollowAtCeilingChangesNothing ==
    FollowAtCeiling
    => /\ rateOp.ret = FALSE
       /\ rl = rateOp.rl
       /\ fm = rateOp.fm
       /\ Sent(rateOp.log) = 0
       /\ EventsOf(rateOp.log, "call") = <<>>
       /\ EventsOf(rateOp.log, "save_data") = <<>>

\* C7, witness: at the ceiling, follow_user of a user not followed has been
\* declined.
C7_Witness ==
    /\ FollowAtCeiling
    /\ ~Following(rateOp.fm, rateOp.arg)
    /\ rateOp.ret = FALSE
    /\ rl["follows"] = MAX_FOLLOWS_PER_HOUR

\* The run of the menu thread.
Run == pub["menu"]

\* A video_upload has returned Published.
VideoPublished ==
    /\ Run.op = "video_upload"
    /\ Run.pc = "done"
    /\ Run.result = "published"

\* C5, as claimed: a successful video_upload has sent the binary exchange
\* of the video, then one thumbnail upload, then one configure call, all
\* with the same upload id.
C5_OneBinaryOneThumbnailOneConfigure ==
    VideoPublished
    => /\ Phases(Run.reqs) = <<"video_init", "video_post", "thumb_post", "configure">>
       /\ \A i \in 1..Len(Run.reqs) : Run.reqs[i].uid = Run.upload_id

\* C5, amended: a successful video_upload has sent one binary exchange of
\* the video (the initialisation GET and the POST of the bytes), then one
\* thumbnail upload if a thumbnail was given or could be extracted and none
\* otherwise, then one configure call, every request with the upload id of
\* the run; the binary exchange declares the duration in milliseconds and
\* the configure call in seconds.
C5_ThumbnailOnlyWhenAvailable ==
    VideoPublished
    => /\ Phases(Run.reqs) =
             IF Run.thumb_src = "absent"
             THEN <<"video_init", "video_post", "configure">>
             ELSE <<"video_init", "video_post", "thumb_post", "configure">>
       /\ \A i \in 1..Len(Run.reqs) : Run.reqs[i].uid = Run.upload_id
       /\ Run.reqs[1].dur = Run.duration \div 1000
       /\ Run.reqs[Len(Run.reqs)].dur = Run.duration

\* C5, witness: a video_upload of a 10-second video with an extracted
\* thumbnail has been published with four requests.
C5_Witness ==
    /\ VideoPublished
    /\ Run.duration = 10 * Micro
    /\ Run.thumb_src = "extracted"
    /\ Len(Run.reqs) = 4

\* C6, as claimed: two publish calls in progress never hold the same
\* upload id.
C6_UploadIdsDistinct ==
    \A t1, t2 \in Threads :
        (t1 # t2 /\ pub[t1].upload_id # 0 /\ pub[t2].upload_id # 0)
        => pub[t1].upload_id # pub[t2].upload_id

\* A story video over 60 seconds or a clip over 90 seconds was started.
OverlongStarted ==
    /\ Run.op \in {"video_upload_to_story", "clip_upload"}
    /\ Run.exists
    /\ too_long(Run.op, Run.duration)

\* C10: an overlong story video or clip is warned about and goes through
\* the pipeline like any other: it is never ended before the binary upload,
\* and when the platform accepts the binary upload and the configure call
\* it is Published, the configure call declaring the probed duration.
C10_OverlongVideoIsOnlyWarned ==
    OverlongStarted
    => /\ Run.warned
       /\ Run.pc = "done" => Run.bin # "none"
       /\ (Run.pc = "done" /\ Run.bin = "ok" /\ Run.thumb # "exc"
              /\ Run.conf \in {"ok_media", "ok_nomedia"})
             => Run.result = "published"
       /\ Run.result = "published"
             => /\ Run.reqs[Len(Run.reqs)] = Req("configure", Run.upload_id, Run.duration)
                /\ Run.duration > 60 * Micro

\* C10, witness: a story video of 95 seconds has been published.
C10_Witness ==
    /\ OverlongStarted
    /\ Run.op = "video_upload_to_story"
    /\ Run.duration = 95 * Micro
    /\ Run.warned
    /\ Run.result = "published"

\* The configure requests of a run.
ConfigureReqs(run) == SelectSeq(run.reqs, LAMBDA q : q.phase = "configure")

\* C11: a publish call sends at most one configure request; whatever the
\* answer (another HTTP status, a status field that is not ok, an
\* exception), the call ends with that request and returns None.
C11_ConfigureSentOnce ==
    /\ Len(ConfigureReqs(Run)) <= 1
    /\ Run.conf # "none"
          => /\ Run.pc = "done"
             /\ ConfigureReqs(Run) = <<Req("configure", Run.upload_id, Run.duration)>>
             /\ Run.reqs[Len(Run.reqs)].phase = "configure"
    /\ Run.conf \in {"not_ok", "http_error", "exc"} => Run.result = "failed"

\* C11, witness: a photo_upload whose configure call was answered with an
\* HTTP error has returned None after one configure request.
C11_Witness ==
    /\ Run.op = "photo_upload"
    /\ Run.conf = "http_error"
    /\ Run.result = "failed"
    /\ Len(ConfigureReqs(Run)) = 1

\* C12, as claimed: a publish call is Published only when the answer to
\* configure has status ok and a media descriptor; status ok without one
\* is Failed.
C12_PublishedOnlyWithMedia ==
    Run.pc = "done" => (Run.result = "published" <=> Run.conf = "ok_media")

\* A login was run on a client that was not authenticated: cl.login, or
\* bot.login that did not restore the session from the snapshot.
LoginFromUnauthenticated ==
    /\ \/ authOp.op = "login"
       \/ authOp.op = "bot_login" /\ ~RestoredFromSnapshot
    /\ ~authOp.before.is_authenticated

\* The platform granted the login: the CSRF cookie was obtained and the
\* login answer carried authenticated, or the code of the checkpoint was
\* answered with a session, or the two-factor answer carried authenticated.
LoginGranted(env) ==
    /\ env.root # "exc"
    /\ \/ env.resp \in {"authenticated", "authenticated_noid"}
       \/ env.resp = "checkpoint" /\ env.sub = "code_ok_session"
       \/ env.resp = "two_factor" /\ env.sub = "authenticated"

\* C13, as claimed: a login from Unauthenticated ends Authenticated only
\* when the platform granted it, by the login answer or by a resolved
\* checkpoint or two-factor sub-flow; in every other case it returns False
\* and the client is not Authenticated.
C13_AuthenticatedOnlyWhenGranted ==
    LoginFromUnauthenticated
    => /\ cl.is_authenticated => LoginGranted(authOp.env)
       /\ ~LoginGranted(authOp.env) => (authOp.ret = FALSE /\ ~cl.is_authenticated)

\* The operation ran InstagramWebAPI.login.
LoginRan ==
    \/ authOp.op = "login"
    \/ authOp.op = "bot_login" /\ ~RestoredFromSnapshot

\* C14, as claimed: when the GET of the main page yields no CSRF cookie,
\* login returns False and the credentials are not submitted, whatever the
\* client held before.
C14_NoCsrfCookieFailsFast ==
    (LoginRan /\ authOp.env.root = "nocookie")
    => /\ authOp.ret = FALSE
       /\ \A i \in 1..Len(authOp.log) :
             authOp.log[i] # Ev("send", "login_ajax", 0)

\* The write call of the client an operation is built on, and its kind.
WriteFnOf(op) ==
    CASE op = "follow_user"          -> "user_follow"
      [] op = "unfollow_user"        -> "user_unfollow"
      [] op \in {"like_post", "like_media_by_id"} -> "media_like"
      [] op = "strategic_commenting" -> "media_comment"
      [] OTHER                       -> "none"

KindOf(fn) ==
    CASE fn = "user_follow"   -> "follows"
      [] fn = "user_unfollow" -> "unfollows"
      [] fn = "media_like"    -> "likes"
      [] fn = "media_comment" -> "comments"
      [] OTHER                -> "none"

\* The write call of the operation got the success token.
WriteSucceeded ==
    \E i \in 1..Len(rateOp.log) :
        rateOp.log[i] = Ev("return", WriteFnOf(rateOp.op), 1)

\* C15, as claimed: a follow, unfollow or like operation reports success
\* and counts the action only when its write call got the success token;
\* otherwise it returns False and the counts are as before.
C15_SuccessOnlyOnToken ==
    (rateOp.op \in {"follow_user", "unfollow_user", "like_post", "like_media_by_id"}
        /\ ~WriteSucceeded)
    => (rateOp.ret = FALSE /\ rl = rateOp.rl)

\* C16, as claimed: every write call sent by an operation is preceded in
\* the operation by the permit check of its kind, and a successful one is
\* followed by recording the action.
C16_WritesGatedAndRecorded ==
    \A i \in 1..Len(rateOp.log) :
        LET e == rateOp.log[i]
        IN  /\ (e.ev = "call" /\ KindOf(e.arg) # "none")
                  => \E j \in 1..(i - 1) :
                        /\ rateOp.log[j].ev = "can_perform"
                        /\ rateOp.log[j].arg = KindOf(e.arg)
            /\ (e = Ev("return", e.arg, 1) /\ KindOf(e.arg) # "none")
                  => \E j \in (i + 1)..Len(rateOp.log) :
                        rateOp.log[j] = Ev("record_action", KindOf(e.arg), 0)

\* C17: a request answered with an HTTP error status other than 429 is the
\* last request of its transport call: the call raises that error at once,
\* without sleeping and without another request; answered so at its first
\* request, the call has sent exactly one.
C17_OtherHttpErrorNotRetried ==
    tx.fn # "none"
    => \A k \in 1..ScriptLen :
          (tx.script[k] = "r500" /\ Sent(tx.log) >= k)
          => /\ Sent(tx.log) = k
             /\ tx.outcome = "raised"
             /\ tx.body = "r500"
             /\ tx.log[Len(tx.log)].ev = "send"
             /\ Len(EventsOf(tx.log, "sleep")) = k - 1

\* C17, witness: _api_post answered with an HTTP 500 has raised after one
\* request.
C17_Witness ==
    /\ tx.fn = "api_post"
    /\ tx.script[1] = "r500"
    /\ tx.outcome = "raised"
    /\ Sent(tx.log) = 1

\* C18: media_pk_from_url never raises, and gives the media id only for a
\* URL with a shortcode whose query was answered with the media; for a URL
\* without a shortcode (no request is sent), an unresolvable shortcode, a
\* status other than 200, a body without shortcode_media and a transport
\* exception it gives None.
C18_ShortcodeResolutionNeverRaises ==
    \A i \in 1..Len(rateOp.log) :
        rateOp.log[i] = Ev("return", "media_pk_from_url", rateOp.log[i].n)
        => /\ rateOp.log[i].n \in {0, 1}
           /\ rateOp.log[i].n = 1 <=> rateOp.log[i - 1] = Ev("answer", "ok", 0)
           /\ rateOp.log[i - 1].ev \in {"call", "answer"}

\* C18, witness: like_post of a post URL whose query raised in transport
\* got None and returned False without a like.
C18_Witness ==
    /\ rateOp.op = "like_post"
    /\ rateOp.arg = "post"
    /\ \E i \in 1..Len(rateOp.log) : rateOp.log[i] = Ev("answer", "exc", 0)
    /\ \E i \in 1..Len(rateOp.log) : rateOp.log[i] = Ev("return", "media_pk_from_url", 0)
    /\ rateOp.ret = FALSE
    /\ EventsOf(rateOp.log, "record_action") = <<>>

\* A publish call is in progress in the thread.
InFlight(t) == pub[t].pc \in {"binary", "thumb", "configure"}

\* C19, as claimed: the menu thread and the daemon thread never both have
\* a publish call in progress on the shared client.
C19_OneCallInFlight ==
    \A t1, t2 \in Threads : (InFlight(t1) /\ InFlight(t2)) => t1 = t2

\* A publish call of an existing video whose probe failed.
ProbeFailedRun ==
    /\ Run.op \in VideoOps
    /\ Run.exists
    /\ Run.probe = ProbeFailed

\* C20: when the probe of the video fails, the call goes on with the
\* defaults, 15 s / 15000 ms and 1080x1920: it is never ended before the
\* binary upload, which declares the default duration, and it is Published
\* when the platform accepts the uploads and the configure call.
C20_ProbeFailureUsesDefaults ==
    ProbeFailedRun
    => /\ Run.duration = DEFAULT_DURATION * Micro
       /\ Run.duration_ms = 15000
       /\ Run.width = 1080
       /\ Run.height = 1920
       /\ Run.pc = "done" => Run.bin # "none"
       /\ Run.bin # "none"
             => Run.reqs[1] = Req("video_init", Run.upload_id, 15000)
       /\ (Run.pc = "done" /\ Run.bin = "ok" /\ Run.thumb # "exc"
              /\ Run.conf = "ok_media")
             => Run.result = "published"

\* C20, witness: a video_upload whose probe failed has been published.
C20_Witness ==
    /\ ProbeFailedRun
    /\ Run.op = "video_upload"
    /\ Run.duration = DEFAULT_DURATION * Micro
    /\ Run.result = "published"

\* C21, as claimed: when a video publish call returns, the thumbnail file
\* it extracted no longer exists, whether the thumbnail upload was
\* accepted, rejected or raised.
C21_TemporaryThumbnailRemoved ==
    (Run.op \in VideoOps /\ Run.pc = "done" /\ Run.thumb_src = "extracted")
    => ~Run.tmp

\* The requests a bot entry point issued: each with 1 when the client was
\* Authenticated as it went out and 0 otherwise.
BotRequests == EventsOf(authOp.log, "request")

\* C22, as claimed: a bot entry point issues a write or a publish request
\* only on a client that is Authenticated.
C22_RequestsOnlyWhenAuthenticated ==
    authOp.op \in {"bot_upload", "bot_like"}
    => \A i \in 1..Len(BotRequests) : BotRequests[i].n = 1

\* C23, as claimed: a mutating call (a web-form write or a versioned-API
\* POST such as story_seen) is sent once; the transport layer never sends
\* it again after a 429.
C23_MutatingCallsNotRetried ==
    tx.fn \in WebWriteFns \cup ApiWriteFns \cup {"api_post", "web_post"}
    => /\ Sent(tx.log) <= 1
       /\ EventsOf(tx.log, "sleep") = <<>>

\* The requests of the last operation on the session.
CsrfRequests == EventsOf(authOp.log, "request")

\* C24, as claimed: every request of the client (each attempt of a
\* versioned-API call, each web-form call, each legacy query fetch, each
\* request of the upload pipeline) carries in X-CSRFToken the value of the
\* csrftoken cookie the jar holds as it goes out.
C24_HeaderIsCurrentCookie ==
    authOp.op \in {"api_get", "web_post", "user_medias", "photo_upload"}
    => \A i \in 1..Len(CsrfRequests) : CsrfRequests[i].n = 1

\* The csrftoken cookie of a jar that was set last.
MostRecentlySet(jar) ==
    CHOOSE x \in {jar.csrf[i] : i \in 1..Len(jar.csrf)} : x.dom = jar.recent

\* C25, as claimed: after _refresh_csrf on a jar holding several csrftoken
\* cookies, the jar holds one csrftoken cookie, the one that was set last,
\* and csrf_token and the X-CSRFToken header have its value.
C25_KeepsMostRecentlySet ==
    (authOp.op = "refresh_csrf" /\ Len(authOp.before.jar.csrf) > 1)
    => /\ cl.jar.csrf = <<MostRecentlySet(authOp.before.jar)>>
       /\ cl.csrf_token = MostRecentlySet(authOp.before.jar).val
       /\ cl.xcsrf = MostRecentlySet(authOp.before.jar).val

\* The login of the last operation submitted the credentials and was
\* answered with the given challenge.
Challenged(resp) ==
    /\ authOp.op \in {"login", "bot_login", "bot_upload"}
    /\ \E i \in 1..Len(authOp.log) : authOp.log[i] = Ev("send", "login_ajax", 0)
    /\ authOp.env.resp = resp

\* The operator was asked for the code and the code was sent to the
\* platform, as the last request of the login.
CodeSubmitted(name) ==
    \E i \in 1..Len(authOp.log) :
        /\ authOp.log[i] = Ev("input", "code", 0)
        /\ i < Len(authOp.log)
        /\ authOp.log[i + 1] = Ev("send", name, 0)
        /\ \A j \in (i + 2)..Len(authOp.log) : authOp.log[j].ev # "send"

\* C26: a login answered with a checkpoint or a two-factor challenge ends
\* Authenticated or Failed.  The checkpoint branch is Authenticated exactly
\* when the submission of the code was accepted and the jar then holds a
\* sessionid cookie; the two-factor branch exactly when the answer to the
\* code carries authenticated.  A Failed branch leaves is_authenticated as
\* it was, and once the code was asked for its submission is the last
\* request.
C26_ChallengeResolves ==
    /\ Challenged("checkpoint")
          => /\ authOp.ret <=> (/\ authOp.env.sub \in {"code_ok", "code_ok_session"}
                                /\ cl.jar.sessionid # "")
             /\ authOp.ret => cl.is_authenticated
             /\ ~authOp.ret => cl.is_authenticated = authOp.before.is_authenticated
             /\ authOp.env.sub \in {"code_exc", "code_rejected", "code_ok",
                                    "code_ok_session"}
                   <=> CodeSubmitted("checkpoint_code")
    /\ Challenged("two_factor")
          => /\ authOp.ret <=> authOp.env.sub = "authenticated"
             /\ authOp.ret => cl.is_authenticated
             /\ ~authOp.ret => cl.is_authenticated = authOp.before.is_authenticated
             /\ CodeSubmitted("two_factor")

\* C26, witness: the code of a checkpoint was accepted and no sessionid
\* cookie came with it; the login has returned False.
C26_Witness ==
    /\ Challenged("checkpoint")
    /\ authOp.op = "login"
    /\ authOp.env.sub = "code_ok"
    /\ cl.jar.sessionid = ""
    /\ authOp.ret = FALSE
    /\ ~cl.is_authenticated

\* The sequences of requests a publish call in the given phase may have
\* sent: the binary upload, for a video a thumbnail upload or none, the
\* configure call.
PhotoPaths == {<<>>, <<"photo_post">>, <<"photo_post", "configure">>}

VideoPaths ==
    {<<>>, <<"video_init">>, <<"video_init", "video_post">>,
     <<"video_init", "video_post", "thumb_post">>,
     <<"video_init", "video_post", "configure">>,
     <<"video_init", "video_post", "thumb_post", "configure">>}

\* C27: a publish call goes from Init to the binary upload, for a video to
\* the thumbnail phase, to the configure call, and ends Published or
\* Failed.  The configure request is sent only after the binary upload was
\* accepted; a rejected binary upload ends the call in Failed with no
\* thumbnail upload and no configure request.
C27_PipelineOrder ==
    /\ Run.op \in PhotoOps => Phases(Run.reqs) \in PhotoPaths
    /\ Run.op \in VideoOps => Phases(Run.reqs) \in VideoPaths
    /\ ConfigureReqs(Run) # <<>> => Run.bin = "ok"
    /\ Run.pc \in {"thumb", "configure"} => Run.bin = "ok"
    /\ Run.bin \in {"rejected", "exc"}
          => /\ Run.pc = "done"
             /\ Run.result = "failed"
             /\ \A i \in 1..Len(Run.reqs) :
                   Run.reqs[i].phase \notin {"thumb_post", "configure"}
    /\ Run.pc = "done" <=> Run.result \in {"published", "failed"}
    /\ Run.result = "published" => ConfigureReqs(Run) # <<>>

\* C27, witness: the binary upload of a clip was rejected and the call
\* has ended in Failed after the two requests of the binary upload.
C27_Witness ==
    /\ Run.op = "clip_upload"
    /\ Run.bin = "rejected"
    /\ Run.result = "failed"
    /\ Phases(Run.reqs) = <<"video_init", "video_post">>

\* C28: in each of the five publish operations every request of the run,
\* the binary upload, the thumbnail upload and the configure call, carries
\* the upload id that was derived from the clock at Init; the id of the run
\* does not follow the clock afterwards.
C28_OneUploadIdPerRun ==
    /\ \A i \in 1..Len(Run.reqs) : Run.reqs[i].uid = Run.upload_id
    /\ Run.reqs # <<>> => Run.upload_id \in 1..clock

\* C28, witness: a story video was published with four requests while the
\* clock moved on after the id was derived.
C28_Witness ==
    /\ Run.op = "video_upload_to_story"
    /\ Run.result = "published"
    /\ Len(Run.reqs) = 4
    /\ clock > Run.upload_id
    /\ \A i \in 1..4 : Run.reqs[i].uid = Run.upload_id

\* A video publish call has sent its configure request: the milliseconds
\* of its binary upload and the seconds of its configure call.
VideoConfigured == Run.op \in VideoOps /\ ConfigureReqs(Run) # <<>>

BinaryMs == Run.reqs[1].dur

ConfigureSeconds == ConfigureReqs(Run)[1].dur

\* C29, as claimed: the milliseconds of the binary upload are the seconds
\* of the configure call times 1000.
C29_MillisecondsAreSecondsTimes1000 ==
    VideoConfigured => BinaryMs * 1000 = ConfigureSeconds

\* C29, amended: both durations come from the one probe result of the run,
\* or from the defaults when the probe failed; the configure call declares
\* the probed seconds and the binary upload int(seconds * 1000), which is
\* the seconds times 1000 less what is under a millisecond: the two agree
\* to within one millisecond.
C29_MillisecondsAreTruncatedSeconds ==
    VideoConfigured
    => /\ ConfigureSeconds = IF Run.probe = ProbeFailed
                             THEN DEFAULT_DURATION * Micro ELSE Run.probe
       /\ BinaryMs * 1000 <= ConfigureSeconds
       /\ ConfigureSeconds <= (BinaryMs + 1) * 1000
       /\ Run.reqs[2].dur = BinaryMs

\* C29, witness: a video of 10.033333 s has been published, its binary
\* upload declaring 10033 ms.
C29_Witness ==
    /\ VideoConfigured
    /\ Run.result = "published"
    /\ ConfigureSeconds = 10033333
    /\ BinaryMs = 10033

\* The page requests of a list fetch, each with the cursor it carried and
\* the number of users gathered before it, and the answers to them, each
\* with its cursor and its number of users.
PageRequests == EventsOf(tx.log, "page")

PageAnswers == EventsOf(tx.log, "answer")

\* C30: user_followers / user_following request a first page when the
\* amount is positive, and a further page exactly when the answer to the
\* previous one carried a cursor and the users gathered are still fewer
\* than the amount; the further request carries that cursor.  The call
\* returns the users gathered, cut at the amount.
C30_PaginationStops ==
    tx.fn \in ListFns
    => /\ Len(PageAnswers) = Len(PageRequests)
       /\ PageRequests # <<>> <=> tx.amount > 0
       /\ PageRequests # <<>> => PageRequests[1] = Ev("page", "", 0)
       /\ \A j \in 1..Len(PageRequests) :
             /\ j < Len(PageRequests)
                   <=> /\ PageAnswers[j].arg \in Cursors
                       /\ PageRequests[j].n + PageAnswers[j].n < tx.amount
             /\ j < Len(PageRequests)
                   => PageRequests[j + 1] =
                         Ev("page", PageAnswers[j].arg,
                            PageRequests[j].n + PageAnswers[j].n)
       /\ tx.value <= tx.amount
       /\ PageRequests # <<>>
             => LET k == Len(PageRequests)
                    got == PageRequests[k].n + PageAnswers[k].n
                IN  tx.value = IF got < tx.amount THEN got ELSE tx.amount

\* C30, witness: a fetch of three followers has stopped after its second
\* page, which brought the count to four and still carried a cursor.
C30_Witness ==
    /\ tx.fn = "user_followers"
    /\ tx.amount = 3
    /\ Len(PageRequests) = 2
    /\ PageAnswers[1] = Ev("answer", "a", 2)
    /\ PageAnswers[2] = Ev("answer", "b", 2)
    /\ tx.value = 3

\* C31: in a fetch of user_followers / user_following the first page
\* request carries no cursor, and every later page request carries the
\* cursor of the answer to the request just before it.
C31_CursorIsThePreviousOne ==
    (tx.fn \in ListFns /\ PageRequests # <<>>)
    => /\ PageRequests[1].arg = ""
       /\ \A j \in 2..Len(PageRequests) :
             /\ PageAnswers[j - 1].arg \in Cursors
             /\ PageRequests[j].arg = PageAnswers[j - 1].arg

\* C31, witness: a fetch has sent three page requests, the second with the
\* cursor of the first answer and the third with the different cursor of
\* the second answer.
C31_Witness ==
    /\ tx.fn = "user_following"
    /\ Len(PageRequests) = 3
    /\ PageAnswers[1].arg = "a"
    /\ PageAnswers[2].arg = "b"
    /\ PageRequests[2].arg = "a"
    /\ PageRequests[3].arg = "b"

\* C32, as claimed: every network request of a transport call, on the
\* versioned-API conventions and on the web-form convention alike, comes
\* right after a delay step of that call.
C32_EveryRequestDelayed ==
    \A i \in 1..Len(tx.log) :
        (tx.fn \in Fns /\ tx.log[i].ev = "send")
        => /\ i > 1
           /\ tx.log[i - 1].ev = "delay"

\* C33, as claimed: after a call of login that returned False the client is
\* not Authenticated, whatever it was before the call.
C33_FailedLoginIsUnauthenticated ==
    (authOp.op = "login" /\ authOp.ret = FALSE) => ~cl.is_authenticated

\* C34, as claimed: whenever the client is Authenticated both user_id and
\* username are set to a non-empty value.
C34_IdentityCaptured ==
    cl.is_authenticated
    => /\ cl.user_id \notin {"None", ""}
       /\ cl.username \notin {"None", ""}

\* C35: after logout the client is not Authenticated and user_id and
\* username are cleared, whatever the client was before and whether or not
\* the logout request got through; logout sends its one request and returns
\* without raising.
C35_LogoutClears ==
    authOp.op = "logout"
    => /\ ~cl.is_authenticated
       /\ cl.user_id = "None"
       /\ cl.username = "None"
       /\ Len(EventsOf(authOp.log, "send")) = 1
       /\ EventsOf(authOp.log, "raise") = <<>>
       /\ authOp.log[Len(authOp.log)] = Ev("return", "logout", 0)

\* C35, witness: an Authenticated client with its identity set has logged
\* out while the logout request got no response.
C35_Witness ==
    /\ authOp.op = "logout"
    /\ authOp.probe = "exc"
    /\ authOp.before.is_authenticated
    /\ authOp.before.username = USER
    /\ ~cl.is_authenticated
    /\ cl.username = "None"

\* A fetch of user_followers / user_following is in its loop, or has left it.
InFetchLoop == tx # NoCall /\ tx.pc = "loop"

FetchLeftLoop == tx = NoCall \/ tx.pc = "done"

\* C36, as claimed: whatever the platform answers, a fetch that has entered
\* its loop leaves it after finitely many page requests.
C36_FetchTerminates == InFetchLoop ~> FetchLeftLoop

\* C37: a fetch of user_followers / user_following returns and does not
\* raise; what it returns is, in order, the users of the pages answered,
\* page after page, cut at amount: the user at place m of answered page j
\* is at place (users of the pages before j) + m of the result when that
\* place is within amount, a page request that raised takes nothing away
\* from the pages before it, and the result has no more than amount users.
C37_PartialResultInOrder ==
    tx.fn \in ListFns
    => LET k     == Len(PageRequests)
           total == IF k = 0 THEN 0 ELSE PageRequests[k].n + PageAnswers[k].n
       IN  /\ tx.outcome = "returned"
           /\ Len(tx.items) <= tx.amount
           /\ Len(tx.items) = IF total < tx.amount THEN total ELSE tx.amount
           /\ \A j \in 1..k :
                 /\ PageAnswers[j].n = tx.script[j].users
                 /\ \A m \in 1..tx.script[j].users :
                       PageRequests[j].n + m <= tx.amount
                       => tx.items[PageRequests[j].n + m] = 10 * j + m

\* C37, witness: the second page request of a fetch of three users raised
\* after a first page of two; the two users of the first page are returned.
C37_Witness ==
    /\ tx.fn = "user_followers"
    /\ tx.amount = 3
    /\ Len(PageRequests) = 2
    /\ PageAnswers[1] = Ev("answer", "a", 2)
    /\ PageAnswers[2] = Ev("answer", "raise", 0)
    /\ tx.items = <<11, 12>>

\* C38: a video publish whose thumbnail upload the platform rejected with a
\* status other than 200 goes on to the configure call: the call is not
\* ended by the rejection, its configure request is sent once with the
\* upload id of the run, and it ends Published exactly when the answer to
\* configure is a 200 with status ok whose media descriptor the call can
\* read, Failed otherwise.
C38_RejectedThumbnailGoesOn ==
    (Run.op \in VideoOps /\ Run.thumb = "rejected")
    => /\ Run.bin = "ok"
       /\ Run.pc \in {"configure", "done"}
       /\ Run.pc = "configure" => Run.result = "none"
       /\ Run.pc = "done"
             => /\ Len(ConfigureReqs(Run)) = 1
                /\ ConfigureReqs(Run)[1].uid = Run.upload_id
                /\ Run.reqs[Len(Run.reqs)].phase = "configure"
                /\ Run.result = "published"
                      <=> \/ Run.conf \in {"ok_media", "ok_nomedia"}
                          \/ /\ Run.conf = "ok_nullmedia"
                             /\ Run.op = "video_upload_to_story"
                /\ Run.result \in {"published", "failed"}

\* C38, witness: a video_upload whose thumbnail was rejected has been
\* Published by its configure call.
C38_Witness ==
    /\ Run.op = "video_upload"
    /\ Run.thumb = "rejected"
    /\ Run.conf = "ok_media"
    /\ Run.result = "published"
    /\ Phases(Run.reqs) = <<"video_init", "video_post", "thumb_post", "configure">>

\* C39, as claimed: the media of a scheduled post is accepted by the
\* platform at most once, a post marked posted is taken by no later
\* check_and_post, and the two threads are never both publishing the same
\* post.
C39_PublishedAtMostOnce ==
    /\ \A p \in Posts : sched.published[p] <= 1
    /\ \A t \in Threads :
          sched.at[t].pc = "publishing"
          => \A u \in Threads \ {t} :
                ~(sched.at[u].pc = "publishing" /\ sched.at[u].post = sched.at[t].post)

\* The username is on the whitelist f holds, capitals and surrounding blanks
\* aside.
OnWhitelist(f, username) ==
    \E w \in f.whitelist : lower_strip(w) = lower_strip(username)

\* The events of a log from place i + 1 up to the next visit, or to the end.
AfterVisit(log, i) ==
    LET later == {j \in (i + 1)..Len(log) : log[j].ev \in {"visit", "return"}}
        stop  == IF later = {} THEN Len(log) + 1
                 ELSE CHOOSE j \in later : \A k \in later : j <= k
    IN  SubSeq(log, i + 1, stop - 1)

\* C40: for a username that is on the whitelist, however it is typed,
\* unfollow_user returns False having sent nothing, recorded nothing and
\* changed nothing, and clean_non_followers goes from its visit of the user
\* straight to the next user; no cleaning marks a whitelisted user of the
\* history as unfollowed.
C40_WhitelistedIsNeverUnfollowed ==
    /\ (rateOp.op = "unfollow_user" /\ OnWhitelist(rateOp.fm, rateOp.arg))
          => /\ rateOp.ret = FALSE
             /\ rateOp.log = <<>>
             /\ rl = rateOp.rl
             /\ fm = rateOp.fm
    /\ rateOp.op = "clean_non_followers"
          => /\ \A i \in 1..Len(rateOp.log) :
                   (rateOp.log[i].ev = "visit"
                       /\ OnWhitelist(rateOp.fm, rateOp.log[i].arg))
                   => AfterVisit(rateOp.log, i) = <<>>
             /\ \A u \in Users :
                   OnWhitelist(rateOp.fm, u) => fm.followed[u] = rateOp.fm.followed[u]
             /\ fm.whitelist = rateOp.fm.whitelist
             /\ rl["unfollows"] - rateOp.rl["unfollows"]
                   = Len(EventsOf(rateOp.log, "record_action"))

\* C40, witness: with alice put on the whitelist, a cleaning of a list with
\* " alice " and bob has passed over the first and unfollowed the second.
C40_Witness ==
    /\ rateOp.op = "clean_non_followers"
    /\ rateOp.fm.whitelist = {"alice"}
    /\ rateOp.log[1] = Ev("visit", " alice ", 1)
    /\ rateOp.log[2] = Ev("visit", "bob", 2)
    /\ rateOp.ret
    /\ Len(EventsOf(rateOp.log, "record_action")) = 1

====
